---- MODULE Spec2Model ----
(***************************************************************************)
(* A model of the server-to-client stream decoder of mapperproxy-mume      *)
(* (mapper/main.py, class Server): the byte-level state machine that       *)
(* handles Telnet negotiation, the MPI remote-editing frames and the XML   *)
(* markup of the MUME stream, the events it posts to the mapper queue and  *)
(* the bytes it writes to the client.  Bytes are the integers 0..255 and   *)
(* byte strings are sequences of bytes.                                    *)
(***************************************************************************)
EXTENDS Integers, Sequences, FiniteSets, TLC

VARIABLES
    \* ---- configuration of the session (Server.__init__)
    outputFormat,               \* "raw", "normal" or "tintin"
    promptTerminator,           \* bytes substituted for IAC GA
    \* ---- the locals of Server.run: the decoder state
    inIAC, inSubOption, inCharset, inCharsetResponse, inMPI,
    mpiThreads, mpiCounter, mpiCommand, mpiLen, mpiBuffer,
    clientBuffer, tagBuffer, textBuffer, lineBuffer,
    charsetResponseBuffer, charsetResponseCode,
    readingTag, inGratuitous, xmlMode, encounteredInitialOutput,
    \* ---- the Server thread
    serverAlive,                \* Server.alive
    serverPc,                   \* "recv", "bytes" (inside the for loop), "closed"
                                \* (the loop has ended) or "failed" (an exception
                                \* has ended run)
    data,                       \* the bytes of the current read not yet decoded
    \* ---- the environment and the shared objects
    stream,                     \* bytes the MUME server has still to deliver
    queue,                      \* the mapper's event queue
    serverSent,                 \* the messages written to the server socket
    clientSent,                 \* the bytes written to the client socket
    \* ---- history, for the properties
    received,                   \* every byte decoded so far
    clientFlushed,              \* the client buffers flushed so far, as built
    params,                     \* the texts the stream was built from
    \* ---- the Proxy thread and the client
    proxyAlive,                 \* Proxy.alive
    proxyPc,                    \* "start", "loop" or "done"
    proxyLast,                  \* the outcome of the Proxy's last recv
    clientIn,                   \* payloads the client has still to send
    clientSock,                 \* "open", "eof", "error" or "shut"
    serverSock,                 \* "open", "eof", "error" or "shut"
    \* ---- the Mapper thread and the driver
    mapperPc,                   \* "run" or "done"
    delivered,                  \* the items the mapper has taken off the queue
    mainPc,                     \* the driver's position in main
    \* ---- the window's configuration (gui/hc.py)
    cfgRoomSize, cfgGap, cfgBlinkRate,
    continuousView,             \* Window.continuous_view
    guiOp,                      \* the last operation on the window and its result
    cfgBlink,                   \* the "blink" key of the configuration
    blinkers,                   \* Window.blinkers["current_room_markers"], or None
    guiError,                   \* the exception a handler of the window has raised
    \* ---- the MPI threads (mapper/mpi.py)
    mpiSending,                 \* the threads in the middle of a write to the server
    mpiDone                     \* the threads that have run to completion

decoderVars == <<inIAC, inSubOption, inCharset, inCharsetResponse, inMPI,
    mpiThreads, mpiCounter, mpiCommand, mpiLen, mpiBuffer,
    clientBuffer, tagBuffer, textBuffer, lineBuffer,
    charsetResponseBuffer, charsetResponseCode,
    readingTag, inGratuitous, xmlMode, encounteredInitialOutput>>

\* What the MPI threads own; mpiThreads[i] is thread i.
workerVars == <<mpiSending, mpiDone>>

\* What the Server thread never touches.
peerVars == <<proxyAlive, proxyPc, proxyLast, clientIn, clientSock, serverSock,
    mapperPc, delivered, mainPc, workerVars>>

\* The blinking markers of the window.
blinkVars == <<cfgBlink, blinkers, guiError>>

guiVars == <<cfgRoomSize, cfgGap, cfgBlinkRate, continuousView, guiOp,
    blinkVars>>

vars == <<outputFormat, promptTerminator, decoderVars, serverAlive, serverPc,
    data, stream, queue, serverSent, clientSent, received, clientFlushed,
    params, peerVars, guiVars>>

----------------------------------------------------------------------------
(* Bounds of the model.                                                    *)

\* The most bytes one recv returns, short of the whole remaining stream.
MaxRead == 6
\* The most tokens of a free text stream.
MaxTextTokens == 3
\* The largest declared length of an MPI body.
MaxBody == 2

----------------------------------------------------------------------------
(* Telnet bytes (telnetlib) and the constants of Server.run.               *)

ordIAC == 255
ordDONT == 254
ordDO == 253
ordWONT == 252
ordWILL == 251
ordSB == 250
ordGA == 249
ordSE == 240
ordTTYPE == 24
ordNAWS == 31
ordNUL == 0
ordXON == 17
ordLF == 10
ordCR == 13
ordCHARSET == 42
SB_REQUEST == 1

ignoreBytes == {ordNUL, ordXON}
negotiationBytes == {ordDONT, ordDO, ordWONT, ordWILL}
charsetSep == <<59>>
defaultCharset == <<85, 83, 45, 65, 83, 67, 73, 73>>

modeNone == 0
modeRoom == 1
modeName == 2
modeDescription == 3
modeExits == 4
modePrompt == 5
modeTerrain == 6

None == <<>>
Some(x) == <<x>>

\* Tag names and other byte strings of the source.
bExits == <<101, 120, 105, 116, 115>>
bPrompt == <<112, 114, 111, 109, 112, 116>>
bRoom == <<114, 111, 111, 109>>
bMovement == <<109, 111, 118, 101, 109, 101, 110, 116>>
bName == <<110, 97, 109, 101>>
bDescription == <<100, 101, 115, 99, 114, 105, 112, 116, 105, 111, 110>>
bTerrain == <<116, 101, 114, 114, 97, 105, 110>>
bGratuitous == <<103, 114, 97, 116, 117, 105, 116, 111, 117, 115>>
bTell == <<116, 101, 108, 108>>
bNarrate == <<110, 97, 114, 114, 97, 116, 101>>
bPray == <<112, 114, 97, 121>>
bSay == <<115, 97, 121>>
bEmote == <<101, 109, 111, 116, 101>>
bDir == <<32, 100, 105, 114, 61>>
Close(name) == <<47>> \o name

tagReplacements ==
    {
    <<bPrompt, <<80, 82, 79, 77, 80, 84, 58>>>>,
    <<Close(bPrompt), <<58, 80, 82, 79, 77, 80, 84>>>>,
    <<bName, <<78, 65, 77, 69, 58>>>>,
    <<Close(bName), <<58, 78, 65, 77, 69>>>>,
    <<bTell, <<84, 69, 76, 76, 58>>>>,
    <<Close(bTell), <<58, 84, 69, 76, 76>>>>,
    <<bNarrate, <<78, 65, 82, 82, 65, 84, 69, 58>>>>,
    <<Close(bNarrate), <<58, 78, 65, 82, 82, 65, 84, 69>>>>,
    <<bPray, <<80, 82, 65, 89, 58>>>>,
    <<Close(bPray), <<58, 80, 82, 65, 89>>>>,
    <<bSay, <<83, 65, 89, 58>>>>,
    <<Close(bSay), <<58, 83, 65, 89>>>>,
    <<bEmote, <<69, 77, 79, 84, 69, 58>>>>,
    <<Close(bEmote), <<58, 69, 77, 79, 84, 69>>>>
    }

initialOutput == <<ordIAC, ordDO, ordTTYPE, ordIAC, ordDO, ordNAWS>>
identifyMessages ==
    <<
    <<126, 36, 35, 69, 73, 10>>,
    <<126, 36, 35, 69, 88, 50, 10, 51, 71, 10>>,
    <<126, 36, 35, 69, 80, 50, 10, 71, 10>>,
    <<ordIAC, ordWILL, ordCHARSET>>
    >>
charsetRequest ==
    <<ordIAC, ordSB, ordCHARSET, SB_REQUEST>> \o charsetSep \o defaultCharset
        \o <<ordIAC, ordSE>>

----------------------------------------------------------------------------
(* The operations of Python's bytes and bytearray that the decoder uses.   *)

Min(a, b) == IF a < b THEN a ELSE b

\* s.startswith(p)
StartsWith(s, p) == Len(p) <= Len(s) /\ SubSeq(s, 1, Len(p)) = p

\* s.endswith(p)
EndsWith(s, p) == Len(p) <= Len(s) /\ SubSeq(s, Len(s) - Len(p) + 1, Len(s)) = p

\* s[0:n]
FirstN(s, n) == SubSeq(s, 1, Min(n, Len(s)))

\* s[-n:]
LastN(s, n) == SubSeq(s, Len(s) - Min(n, Len(s)) + 1, Len(s))

\* del s[-n:]
DelLast(s, n) == SubSeq(s, 1, Len(s) - Min(n, Len(s)))

\* s[n:]
From(s, n) == SubSeq(s, n + 1, Len(s))

\* s.isdigit()
IsDigit(s) == Len(s) > 0 /\ \A i \in 1..Len(s) : s[i] \in 48..57

\* int(s) of a string of decimal digits
RECURSIVE ToInt(_)
ToInt(s) ==
    IF s = <<>> THEN 0
    ELSE 10 * ToInt(SubSeq(s, 1, Len(s) - 1)) + (s[Len(s)] - 48)

\* The whitespace of bytes.strip(): space, \t, \n, \v, \f, \r.
whitespace == {32, 9, 10, 11, 12, 13}

\* bool(line.strip())
NonBlank(line) == \E i \in 1..Len(line) : line[i] \notin whitespace

\* s.splitlines(): the lines of s, broken at \n, \r and \r\n, the breaks
\* dropped and no empty line added after a final break.
RECURSIVE SplitLines(_)
SplitLines(s) ==
    IF s = <<>> THEN <<>>
    ELSE LET brk == {i \in 1..Len(s) : s[i] \in {ordLF, ordCR}} IN
        IF brk = {} THEN <<s>>
        ELSE LET i == CHOOSE k \in brk : \A j \in brk : k <= j
                 n == IF s[i] = ordCR /\ i < Len(s) /\ s[i + 1] = ordLF
                      THEN i + 1 ELSE i
             IN  <<SubSeq(s, 1, i - 1)>> \o SplitLines(From(s, n))

\* The index of the first occurrence of p in s, 0 when there is none.
Find(s, p) ==
    LET at == {i \in 1..(Len(s) - Len(p) + 1) : SubSeq(s, i, i + Len(p) - 1) = p} IN
    IF at = {} THEN 0 ELSE CHOOSE k \in at : \A j \in at : k <= j

\* s.replace(old, b"", 1)
RemoveFirst(s, old) ==
    LET i == Find(s, old) IN
    IF i = 0 THEN s ELSE SubSeq(s, 1, i - 1) \o From(s, i + Len(old) - 1)

\* s.split(sep, 1)[0]
BeforeFirst(s, sep) ==
    LET i == Find(s, sep) IN
    IF i = 0 THEN s ELSE SubSeq(s, 1, i - 1)

\* tagReplacements.get(tag, b"")
TagReplacement(tag) ==
    IF \E r \in tagReplacements : r[1] = tag
    THEN (CHOOSE r \in tagReplacements : r[1] = tag)[2]
    ELSE <<>>

----------------------------------------------------------------------------
(* unescapeXML (mapper/utils.py), as section 4.5 of the specification      *)
(* states it: the named references &lt; &gt; &amp; &quot; and the numeric   *)
(* references &#NNN; and &#xHH; are replaced by their literal byte, in one *)
(* pass from left to right.                                                *)

namedEntities ==
    {
    <<<<38, 108, 116, 59>>, <<60>>>>,
    <<<<38, 103, 116, 59>>, <<62>>>>,
    <<<<38, 97, 109, 112, 59>>, <<38>>>>,
    <<<<38, 113, 117, 111, 116, 59>>, <<34>>>>
    }

HexValue(b) ==
    IF b \in 48..57 THEN b - 48
    ELSE IF b \in 65..70 THEN b - 55
    ELSE b - 87

RECURSIVE ToHex(_)
ToHex(s) ==
    IF s = <<>> THEN 0
    ELSE 16 * ToHex(SubSeq(s, 1, Len(s) - 1)) + HexValue(s[Len(s)])

IsHex(s) ==
    Len(s) > 0 /\ \A i \in 1..Len(s) : s[i] \in (48..57) \cup (65..70) \cup (97..102)

\* The numeric reference s begins with, as <<its length, its byte>>, or <<>>.
NumericRef(s) ==
    LET semi == Find(s, <<59>>) IN
    IF ~StartsWith(s, <<38, 35>>) \/ semi = 0 THEN <<>>
    ELSE LET body == SubSeq(s, 3, semi - 1) IN
        IF IsDigit(body) /\ ToInt(body) <= 255 THEN <<semi, ToInt(body)>>
        ELSE IF Len(body) > 1 /\ body[1] = 120 /\ IsHex(Tail(body))
                /\ ToHex(Tail(body)) <= 255
            THEN <<semi, ToHex(Tail(body))>>
        ELSE <<>>

RECURSIVE unescapeXML(_)
unescapeXML(s) ==
    IF s = <<>> THEN <<>>
    ELSE IF \E e \in namedEntities : StartsWith(s, e[1])
        THEN LET e == CHOOSE x \in namedEntities : StartsWith(s, x[1])
             IN  e[2] \o unescapeXML(From(s, Len(e[1])))
    ELSE IF NumericRef(s) # <<>>
        THEN <<NumericRef(s)[2]>> \o unescapeXML(From(s, NumericRef(s)[1]))
    ELSE <<s[1]>> \o unescapeXML(Tail(s))

----------------------------------------------------------------------------
(* The decoder state as one record, and the decoding of one byte           *)
(* (the body of the for loop of Server.run).  The record also carries the  *)
(* shared objects a byte can act on: the mapper queue, the server socket   *)
(* and the list of MPI threads.                                            *)

DecoderState ==
    [inIAC |-> inIAC, inSubOption |-> inSubOption, inCharset |-> inCharset,
     inCharsetResponse |-> inCharsetResponse, inMPI |-> inMPI,
     mpiThreads |-> mpiThreads, mpiCounter |-> mpiCounter,
     mpiCommand |-> mpiCommand, mpiLen |-> mpiLen, mpiBuffer |-> mpiBuffer,
     clientBuffer |-> clientBuffer, tagBuffer |-> tagBuffer,
     textBuffer |-> textBuffer, lineBuffer |-> lineBuffer,
     charsetResponseBuffer |-> charsetResponseBuffer,
     charsetResponseCode |-> charsetResponseCode,
     readingTag |-> readingTag, inGratuitous |-> inGratuitous,
     xmlMode |-> xmlMode, queue |-> queue, serverSent |-> serverSent]

rawFormat == outputFormat = "raw"
tinTinFormat == outputFormat = "tintin"

\* self._mapper.queue.put((MUD_DATA, (event, payload)))
Put(d, event, payload) ==
    [d EXCEPT !.queue = Append(@, [type |-> "MUD_DATA", event |-> event,
                                   data |-> payload])]

\* TelnetCommand with a fault: the decoder never leaves the IAC state.
TelnetCommandKeepsIAC(d0, byte) ==
    [d0 EXCEPT !.clientBuffer = Append(@, byte)]

\* Lines 162-208: the byte that follows IAC, or the option byte that follows
\* a negotiation verb.
TelnetCommand(d0, byte) ==
    LET d == [d0 EXCEPT !.clientBuffer = Append(@, byte)] IN
    IF byte \in negotiationBytes THEN d
    ELSE LET e == [d EXCEPT !.inIAC = FALSE] IN
        IF byte = ordSB THEN [e EXCEPT !.inSubOption = TRUE]
        ELSE IF byte = ordSE THEN
            IF e.inCharset /\ e.inCharsetResponse
            THEN [e EXCEPT !.clientBuffer = DelLast(@, 2),
                           !.charsetResponseCode = None,
                           !.charsetResponseBuffer = <<>>,
                           !.inCharsetResponse = FALSE,
                           !.inCharset = FALSE,
                           !.inSubOption = FALSE]
            ELSE [e EXCEPT !.inSubOption = FALSE]
        ELSE IF e.inSubOption THEN e
        ELSE IF byte = ordIAC THEN
            IF e.inMPI
            THEN [e EXCEPT !.mpiCounter = 0,
                           !.mpiBuffer = Append(@, byte),
                           !.clientBuffer = DelLast(@, 2)]
            ELSE IF e.xmlMode = modeNone
            THEN [e EXCEPT !.mpiCounter = 0, !.lineBuffer = Append(@, byte)]
            ELSE [e EXCEPT !.mpiCounter = 0]
        ELSE IF byte = ordCHARSET /\ e.inCharset
                /\ LastN(e.clientBuffer, 3) = <<ordIAC, ordDO, ordCHARSET>>
        THEN [e EXCEPT !.serverSent = Append(@, charsetRequest),
                       !.clientBuffer = DelLast(@, 3)]
        ELSE IF byte = ordGA THEN
            LET g == Put([e EXCEPT !.clientBuffer =
                              DelLast(@, 2) \o promptTerminator],
                         "iac_ga", <<>>)
            IN  IF g.xmlMode = modeNone
                THEN [g EXCEPT !.lineBuffer = @ \o <<ordCR, ordLF>>]
                ELSE g
        ELSE e

\* Lines 209-211: IAC.
TelnetIAC(d, byte) ==
    [d EXCEPT !.clientBuffer = Append(@, byte), !.inIAC = TRUE]

\* Lines 212-223: a byte inside a sub-option, or an ignored byte.
SubOptionByte(d, byte) ==
    IF byte = ordCHARSET /\ d.inCharset
        /\ LastN(d.clientBuffer, 2) = <<ordIAC, ordSB>>
    THEN [d EXCEPT !.clientBuffer = DelLast(@, 2), !.inCharsetResponse = TRUE]
    ELSE IF d.inCharsetResponse /\ byte \notin ignoreBytes
    THEN IF d.charsetResponseCode = None
         THEN [d EXCEPT !.charsetResponseCode = Some(byte)]
         ELSE [d EXCEPT !.charsetResponseBuffer = Append(@, byte)]
    ELSE [d EXCEPT !.clientBuffer = Append(@, byte)]

\* threading.Thread of MPI(command=, data=), started.
MpiThread(command, body) == [command |-> command, data |-> body]

\* MpiByte with a fault: an invalid header is left in the MPI buffer.
MpiByteKeepsHeader(d, byte) ==
    IF byte = ordLF /\ d.mpiCommand = None /\ d.mpiLen = None
    THEN IF FirstN(d.mpiBuffer, 1) \in {<<69>>, <<86>>}
            /\ IsDigit(From(d.mpiBuffer, 1))
         THEN [d EXCEPT !.mpiCommand = FirstN(d.mpiBuffer, 1),
                        !.mpiLen = Some(ToInt(From(d.mpiBuffer, 1))),
                        !.mpiBuffer = <<>>]
         ELSE [d EXCEPT !.inMPI = FALSE]
    ELSE LET e == [d EXCEPT !.mpiBuffer = Append(@, byte)] IN
        IF e.mpiLen # None /\ Len(e.mpiBuffer) >= e.mpiLen[1]
        THEN [e EXCEPT !.mpiThreads =
                           Append(@, MpiThread(e.mpiCommand, e.mpiBuffer)),
                       !.mpiBuffer = <<>>,
                       !.mpiCommand = None,
                       !.mpiLen = None,
                       !.inMPI = FALSE]
        ELSE e

\* Lines 224-245: a byte of an MPI header or body.
MpiByte(d, byte) ==
    IF byte = ordLF /\ d.mpiCommand = None /\ d.mpiLen = None
    THEN IF FirstN(d.mpiBuffer, 1) \in {<<69>>, <<86>>}
            /\ IsDigit(From(d.mpiBuffer, 1))
         THEN [d EXCEPT !.mpiCommand = FirstN(d.mpiBuffer, 1),
                        !.mpiLen = Some(ToInt(From(d.mpiBuffer, 1))),
                        !.mpiBuffer = <<>>]
         ELSE [d EXCEPT !.inMPI = FALSE, !.mpiBuffer = <<>>]
    ELSE LET e == [d EXCEPT !.mpiBuffer = Append(@, byte)] IN
        IF e.mpiLen # None /\ Len(e.mpiBuffer) >= e.mpiLen[1]
        THEN [e EXCEPT !.mpiThreads =
                           Append(@, MpiThread(e.mpiCommand, e.mpiBuffer)),
                       !.mpiBuffer = <<>>,
                       !.mpiCommand = None,
                       !.mpiLen = None,
                       !.inMPI = FALSE]
        ELSE e

\* Line 246: the byte is one of the first three of the MPI escape ~$#E.
MpiEscapeStart(d, byte) ==
    \/ byte = 126 /\ d.mpiCounter = 0 /\ EndsWith(d.clientBuffer, <<ordLF>>)
    \/ byte = 36 /\ d.mpiCounter = 1
    \/ byte = 35 /\ d.mpiCounter = 2

\* MovementDirection with a fault: the direction is not cut at the '/'.
MovementDirectionKeepsSlash(tag) ==
    RemoveFirst(From(tag, 8), bDir)

\* Line 265: the direction a movement tag carries.
MovementDirection(tag) ==
    BeforeFirst(RemoveFirst(From(tag, 8), bDir), <<47>>)

\* Lines 257-265: the end of a tag outside any XML element.
TagInNone(d) ==
    LET tag == d.tagBuffer IN
    IF StartsWith(tag, bExits) THEN [d EXCEPT !.xmlMode = modeExits]
    ELSE IF StartsWith(tag, bPrompt) THEN [d EXCEPT !.xmlMode = modePrompt]
    ELSE IF StartsWith(tag, bRoom) THEN [d EXCEPT !.xmlMode = modeRoom]
    ELSE IF StartsWith(tag, bMovement)
    THEN Put(d, "movement", MovementDirection(tag))
    ELSE d

\* Lines 266-280: the end of a tag directly inside a room element.
TagInRoom(d) ==
    LET tag == d.tagBuffer IN
    IF StartsWith(tag, bName) THEN [d EXCEPT !.xmlMode = modeName]
    ELSE IF StartsWith(tag, bDescription)
    THEN [d EXCEPT !.xmlMode = modeDescription]
    ELSE IF StartsWith(tag, bTerrain) THEN [d EXCEPT !.xmlMode = modeTerrain]
    ELSE IF StartsWith(tag, bGratuitous) THEN [d EXCEPT !.inGratuitous = TRUE]
    ELSE IF StartsWith(tag, Close(bGratuitous))
    THEN [d EXCEPT !.inGratuitous = FALSE]
    ELSE IF StartsWith(tag, Close(bRoom))
    THEN [Put(d, "dynamic", d.textBuffer) EXCEPT !.xmlMode = modeNone]
    ELSE d

\* Lines 281-294: the end of a tag inside a name, description, terrain,
\* exits or prompt element.
TagInElement(d) ==
    LET tag == d.tagBuffer IN
    IF d.xmlMode = modeName /\ StartsWith(tag, Close(bName))
    THEN [Put(d, "name", d.textBuffer) EXCEPT !.xmlMode = modeRoom]
    ELSE IF d.xmlMode = modeDescription /\ StartsWith(tag, Close(bDescription))
    THEN [Put(d, "description", d.textBuffer) EXCEPT !.xmlMode = modeRoom]
    ELSE IF d.xmlMode = modeTerrain /\ StartsWith(tag, Close(bTerrain))
    THEN [d EXCEPT !.xmlMode = modeRoom]
    ELSE IF d.xmlMode = modeExits /\ StartsWith(tag, Close(bExits))
    THEN [Put(d, "exits", d.textBuffer) EXCEPT !.xmlMode = modeNone]
    ELSE IF d.xmlMode = modePrompt /\ StartsWith(tag, Close(bPrompt))
    THEN [Put(d, "prompt", d.textBuffer) EXCEPT !.xmlMode = modeNone]
    ELSE d

\* TagTransition with a fault: the branches of the name, description,
\* terrain, exits and prompt modes are missing.
TagTransitionSkipsElements(d) ==
    IF d.xmlMode = modeNone THEN TagInNone(d)
    ELSE IF d.xmlMode = modeRoom THEN TagInRoom(d)
    ELSE d

\* Lines 257-294: the transition of xmlMode at the end of a tag, with the
\* event it puts on the queue.
TagTransition(d) ==
    IF d.xmlMode = modeNone THEN TagInNone(d)
    ELSE IF d.xmlMode = modeRoom THEN TagInRoom(d)
    ELSE TagInElement(d)

\* TagEnd with a fault: the text buffer is not cleared.
TagEndKeepsText(d) ==
    [d EXCEPT !.clientBuffer =
                  IF tinTinFormat THEN @ \o TagReplacement(d.tagBuffer) ELSE @,
              !.tagBuffer = <<>>,
              !.readingTag = FALSE]

\* TagEnd with a fault: the tag buffer is not cleared.
TagEndKeepsTag(d) ==
    [d EXCEPT !.clientBuffer =
                  IF tinTinFormat THEN @ \o TagReplacement(d.tagBuffer) ELSE @,
              !.textBuffer = <<>>,
              !.readingTag = FALSE]

\* Lines 295-299: the end of a tag after the transition.
TagEnd(d) ==
    [d EXCEPT !.clientBuffer =
                  IF tinTinFormat THEN @ \o TagReplacement(d.tagBuffer) ELSE @,
              !.tagBuffer = <<>>,
              !.textBuffer = <<>>,
              !.readingTag = FALSE]

\* RawEcho with a fault: the byte is appended in every format.
RawEchoAlways(d, byte) ==
    [d EXCEPT !.clientBuffer = Append(@, byte)]

\* What the raw format adds to the client buffer (lines 302-303, 308-309).
RawEcho(d, byte) ==
    IF rawFormat THEN [d EXCEPT !.clientBuffer = Append(@, byte)] ELSE d

\* Lines 253-303: a byte inside a tag.
TagByte(d0, byte) ==
    LET d == [d0 EXCEPT !.mpiCounter = 0] IN
    IF byte = 62
    THEN RawEcho(TagEnd(TagTransition(d)), byte)
    ELSE RawEcho([d EXCEPT !.tagBuffer = Append(@, byte)], byte)

\* Lines 304-309: the start of a tag.
TagStart(d, byte) ==
    RawEcho([d EXCEPT !.mpiCounter = 0, !.readingTag = TRUE], byte)

\* LineByte with a fault: a newline is buffered like any other byte and no
\* line is ever put on the queue.
LineByteHoldsLines(d, byte) ==
    [d EXCEPT !.lineBuffer = Append(@, byte)]

\* Lines 313-320: a text byte outside any XML element.
LineByte(d, byte) ==
    IF byte = ordLF /\ d.lineBuffer # <<>>
    THEN LET lines == SplitLines(d.lineBuffer)
             kept == SelectSeq(lines, NonBlank)
         IN  [d EXCEPT !.queue = @ \o
                           [i \in 1..Len(kept) |->
                               [type |-> "MUD_DATA", event |-> "line",
                                data |-> kept[i]]],
                       !.lineBuffer = <<>>]
    ELSE [d EXCEPT !.lineBuffer = Append(@, byte)]

\* TextEcho with a fault: the gratuitous flag is not consulted.
TextEchoAlways(d, byte) ==
    [d EXCEPT !.clientBuffer = Append(@, byte)]

\* Lines 323-324: the text byte reaches the client buffer.
TextEcho(d, byte) ==
    IF rawFormat \/ ~d.inGratuitous
    THEN [d EXCEPT !.clientBuffer = Append(@, byte)]
    ELSE d

\* TextByte with a fault: the text of a gratuitous element is not kept.
TextByteDropsHidden(d0, byte) ==
    LET d == [d0 EXCEPT !.mpiCounter = 0] IN
    IF d.inGratuitous THEN TextEcho(d, byte)
    ELSE IF d.xmlMode = modeNone
    THEN TextEcho(LineByte(d, byte), byte)
    ELSE TextEcho([d EXCEPT !.textBuffer = Append(@, byte)], byte)

\* Lines 310-324: a text byte.
TextByte(d0, byte) ==
    LET d == [d0 EXCEPT !.mpiCounter = 0] IN
    IF d.xmlMode = modeNone
    THEN TextEcho(LineByte(d, byte), byte)
    ELSE TextEcho([d EXCEPT !.textBuffer = Append(@, byte)], byte)

\* Lines 162-324: one iteration of the for loop.
DecodeByte(d, byte) ==
    IF d.inIAC THEN TelnetCommand(d, byte)
    ELSE IF byte = ordIAC THEN TelnetIAC(d, byte)
    ELSE IF d.inSubOption \/ byte \in ignoreBytes THEN SubOptionByte(d, byte)
    ELSE IF d.inMPI THEN MpiByte(d, byte)
    ELSE IF MpiEscapeStart(d, byte) THEN [d EXCEPT !.mpiCounter = @ + 1]
    ELSE IF byte = 69 /\ d.mpiCounter = 3
    THEN [d EXCEPT !.inMPI = TRUE, !.mpiCounter = 0]
    ELSE IF d.readingTag THEN TagByte(d, byte)
    ELSE IF byte = 60 THEN TagStart(d, byte)
    ELSE TextByte(d, byte)

----------------------------------------------------------------------------
(* The Server thread: Server.run.                                          *)

\* The sizes recv(4096) may return: any part of what the server has sent,
\* up to the size of the read buffer, or all of it.
ReadSizes == (1..Min(MaxRead, Len(stream))) \cup {Len(stream)}

\* ServerRecv with a fault: every payload that begins with the login
\* negotiation triggers the identification.
ServerRecvRepeats ==
    /\ serverPc = "recv"
    /\ serverAlive
    /\ stream # <<>>
    /\ \E n \in ReadSizes :
        /\ data' = SubSeq(stream, 1, n)
        /\ stream' = From(stream, n)
        /\ IF StartsWith(SubSeq(stream, 1, n), initialOutput)
           THEN /\ serverSent' = serverSent \o identifyMessages
                /\ inCharset' = TRUE
                /\ encounteredInitialOutput' = TRUE
           ELSE UNCHANGED <<serverSent, inCharset, encounteredInitialOutput>>
    /\ serverPc' = "bytes"
    /\ UNCHANGED <<outputFormat, promptTerminator, inIAC, inSubOption,
                   inCharsetResponse, inMPI, mpiThreads, mpiCounter, mpiCommand,
                   mpiLen, mpiBuffer, clientBuffer, tagBuffer, textBuffer,
                   lineBuffer, charsetResponseBuffer, charsetResponseCode,
                   readingTag, inGratuitous, xmlMode, serverAlive, queue,
                   clientSent, received, clientFlushed, params, peerVars,
                   guiVars>>

\* Lines 140-160: recv returns n bytes; the first payload that begins with
\* the login negotiation triggers the identification.
ServerRecv ==
    /\ serverPc = "recv"
    /\ serverAlive
    /\ stream # <<>>
    /\ \E n \in ReadSizes :
        /\ data' = SubSeq(stream, 1, n)
        /\ stream' = From(stream, n)
        /\ IF ~encounteredInitialOutput /\ StartsWith(SubSeq(stream, 1, n), initialOutput)
           THEN /\ serverSent' = serverSent \o identifyMessages
                /\ inCharset' = TRUE
                /\ encounteredInitialOutput' = TRUE
           ELSE UNCHANGED <<serverSent, inCharset, encounteredInitialOutput>>
    /\ serverPc' = "bytes"
    /\ UNCHANGED <<outputFormat, promptTerminator, inIAC, inSubOption,
                   inCharsetResponse, inMPI, mpiThreads, mpiCounter, mpiCommand,
                   mpiLen, mpiBuffer, clientBuffer, tagBuffer, textBuffer,
                   lineBuffer, charsetResponseBuffer, charsetResponseCode,
                   readingTag, inGratuitous, xmlMode, serverAlive, queue,
                   clientSent, received, clientFlushed, params, peerVars,
                   guiVars>>

\* Lines 161-324: the for loop decodes the next byte of the read.
ServerByte ==
    /\ serverPc = "bytes"
    /\ data # <<>>
    /\ LET d == DecodeByte(DecoderState, Head(data)) IN
        /\ inIAC' = d.inIAC
        /\ inSubOption' = d.inSubOption
        /\ inCharset' = d.inCharset
        /\ inCharsetResponse' = d.inCharsetResponse
        /\ inMPI' = d.inMPI
        /\ mpiThreads' = d.mpiThreads
        /\ mpiCounter' = d.mpiCounter
        /\ mpiCommand' = d.mpiCommand
        /\ mpiLen' = d.mpiLen
        /\ mpiBuffer' = d.mpiBuffer
        /\ clientBuffer' = d.clientBuffer
        /\ tagBuffer' = d.tagBuffer
        /\ textBuffer' = d.textBuffer
        /\ lineBuffer' = d.lineBuffer
        /\ charsetResponseBuffer' = d.charsetResponseBuffer
        /\ charsetResponseCode' = d.charsetResponseCode
        /\ readingTag' = d.readingTag
        /\ inGratuitous' = d.inGratuitous
        /\ xmlMode' = d.xmlMode
        /\ queue' = d.queue
        /\ serverSent' = d.serverSent
    /\ received' = Append(received, Head(data))
    /\ data' = Tail(data)
    /\ UNCHANGED <<outputFormat, promptTerminator, encounteredInitialOutput,
                   serverAlive, serverPc, stream, clientSent, clientFlushed,
                   params, peerVars, guiVars>>

\* Lines 325-331: the client buffer is written to the client, its XML
\* entities decoded unless the format is raw, and cleared.
ServerFlush ==
    /\ serverPc = "bytes"
    /\ data = <<>>
    /\ clientSent' = clientSent \o
            (IF rawFormat THEN clientBuffer ELSE unescapeXML(clientBuffer))
    /\ clientFlushed' = clientFlushed \o clientBuffer
    /\ clientBuffer' = <<>>
    /\ serverPc' = "recv"
    /\ UNCHANGED <<outputFormat, promptTerminator, inIAC, inSubOption, inCharset,
                   inCharsetResponse, inMPI, mpiThreads, mpiCounter, mpiCommand,
                   mpiLen, mpiBuffer, tagBuffer, textBuffer, lineBuffer,
                   charsetResponseBuffer, charsetResponseCode, readingTag,
                   inGratuitous, xmlMode, encounteredInitialOutput, serverAlive,
                   data, stream, queue, serverSent, received, params, peerVars,
                   guiVars>>

\* Lines 146-148: the server has closed the connection; recv returns b"".
ServerEof ==
    /\ serverPc = "recv"
    /\ serverAlive
    /\ stream = <<>>
    /\ serverSock = "eof"
    /\ serverAlive' = FALSE
    /\ serverPc' = "closed"
    /\ UNCHANGED <<outputFormat, promptTerminator, decoderVars, data, stream,
                   queue, serverSent, clientSent, received, clientFlushed,
                   params, peerVars, guiVars>>

ServerNext == ServerRecv \/ ServerByte \/ ServerFlush \/ ServerEof

\* Lines 96-139: the locals of Server.run as it enters its loop.
InitDecoder ==
    /\ inIAC = FALSE
    /\ inSubOption = FALSE
    /\ inCharset = FALSE
    /\ inCharsetResponse = FALSE
    /\ inMPI = FALSE
    /\ mpiThreads = <<>>
    /\ mpiCounter = 0
    /\ mpiCommand = None
    /\ mpiLen = None
    /\ mpiBuffer = <<>>
    /\ clientBuffer = <<>>
    /\ tagBuffer = <<>>
    /\ textBuffer = <<>>
    /\ lineBuffer = <<>>
    /\ charsetResponseBuffer = <<>>
    /\ charsetResponseCode = None
    /\ readingTag = FALSE
    /\ inGratuitous = FALSE
    /\ xmlMode = modeNone
    /\ encounteredInitialOutput = FALSE
    /\ serverAlive = TRUE
    /\ serverPc = "recv"
    /\ data = <<>>
    /\ queue = <<>>
    /\ serverSent = <<>>
    /\ clientSent = <<>>
    /\ received = <<>>
    /\ clientFlushed = <<>>

\* main, lines 392-400, and Proxy.__init__: the threads as they are started.
InitThreads ==
    /\ proxyAlive = FALSE
    /\ proxyPc = "start"
    /\ proxyLast = "none"
    /\ mapperPc = "run"
    /\ delivered = <<>>
    /\ mainPc = "join_server"
    /\ mpiSending = {}
    /\ mpiDone = {}

\* Blinking is disabled: the window has no markers.
NoBlink ==
    /\ cfgBlink = FALSE
    /\ blinkers = None
    /\ guiError = ""

\* The text interface: there is no window.
NoGui ==
    /\ cfgRoomSize = None
    /\ cfgGap = None
    /\ cfgBlinkRate = None
    /\ continuousView = TRUE
    /\ guiOp = <<>>
    /\ NoBlink

\* The decoder seen alone: the client sends nothing, and the server closes
\* the connection once it has delivered its stream.
DecoderOnly ==
    /\ InitThreads
    /\ NoGui
    /\ clientIn = <<>>
    /\ clientSock = "open"
    /\ serverSock = "eof"

OutputFormats == {"raw", "normal", "tintin"}

\* main: an empty prompt terminator stands for IAC GA (lines 344-345).
defaultTerminator == <<ordIAC, ordGA>>

\* The whole stream has been decoded and flushed, and the thread has ended.
Decoded == serverPc = "closed"

\* The concatenation of a sequence of byte strings.
RECURSIVE Concat(_)
Concat(ss) == IF ss = <<>> THEN <<>> ELSE Head(ss) \o Concat(Tail(ss))

\* The sequences of at most n elements of S.
SeqsUpTo(S, n) == UNION {[1..k -> S] : k \in 0..n}

----------------------------------------------------------------------------
(* Free text streams: every sequence of at most MaxTextTokens of the       *)
(* tokens below, delivered in reads of every size.  They hold no '<', no   *)
(* '>', no IAC and no complete MPI escape.                                 *)

TextTokens ==
    {<<97>>, <<32>>, <<ordLF>>, <<126>>, <<38, 108, 116, 59>>, <<ordNUL>>}

InitText ==
    /\ InitDecoder
    /\ DecoderOnly
    /\ outputFormat \in OutputFormats
    /\ promptTerminator = defaultTerminator
    /\ \E toks \in SeqsUpTo(TextTokens, MaxTextTokens) :
        /\ stream = Concat(toks)
        /\ params = toks

SpecText == InitText /\ [][ServerNext]_vars

----------------------------------------------------------------------------
(* What the properties read off the queue and the streams.                 *)

\* The payloads of the events of one kind, in queue order.
EventData(kind) ==
    LET es == SelectSeq(queue, LAMBDA e : e.type = "MUD_DATA" /\ e.event = kind)
    IN  [i \in 1..Len(es) |-> es[i].data]

\* The events of the queue as <<kind, payload>> pairs.
Events == [i \in 1..Len(queue) |-> <<queue[i].event, queue[i].data>>]

\* The byte strings of ss joined by sep.
RECURSIVE Join(_, _)
Join(ss, sep) ==
    IF ss = <<>> THEN <<>>
    ELSE IF Len(ss) = 1 THEN ss[1]
    ELSE ss[1] \o sep \o Join(Tail(ss), sep)

\* s without its trailing whitespace.
RECURSIVE RStrip(_)
RStrip(s) ==
    IF s # <<>> /\ s[Len(s)] \in whitespace
    THEN RStrip(SubSeq(s, 1, Len(s) - 1))
    ELSE s

\* The lines of s: the segments its line feeds end.
RECURSIVE LinesOf(_)
LinesOf(s) ==
    IF s = <<>> THEN <<>>
    ELSE LET i == Find(s, <<ordLF>>) IN
        IF i = 0 THEN <<s>>
        ELSE <<SubSeq(s, 1, i - 1)>> \o LinesOf(From(s, i))

\* s with the trailing whitespace of each line stripped.
StrippedLines(s) ==
    LET ls == LinesOf(s) IN
    Join([i \in 1..Len(ls) |-> RStrip(ls[i])], <<ordLF>>)

\* The for loop has decoded every byte of the read.
EndOfRead == serverPc = "bytes" /\ data = <<>>

----------------------------------------------------------------------------
(* Claims about free text streams (SpecText).                              *)

\* C1: for a stream S with no '<', '>', IAC or complete MPI escape, decoded
\* in normal format, the bytes appended to the client buffer are exactly S,
\* and the Line events joined by newlines are S with the trailing whitespace
\* of each line stripped.
C1_PlainTextPreserved ==
    outputFormat = "normal" =>
        /\ EndOfRead => clientFlushed \o clientBuffer = received
        /\ Decoded => Join(EventData("line"), <<ordLF>>) = StrippedLines(received)

\* C7: in raw format every byte received reaches the client unchanged and in
\* order, for a stream with no IAC and no complete MPI frame.
C7_RawIsVerbatim ==
    outputFormat = "raw" =>
        /\ EndOfRead => clientFlushed \o clientBuffer = received
        /\ Decoded => clientSent = received

\* C9: in normal and tintin formats every entity reference of the text
\* forwarded to the client reaches it decoded, however the stream is split
\* into reads; in raw format the text reaches it undecoded.
C9_EntitiesDecoded ==
    Decoded =>
        IF outputFormat = "raw"
        THEN clientSent = clientFlushed
        ELSE clientSent = unescapeXML(clientFlushed)

----------------------------------------------------------------------------
(* Room blocks: the stream of scenario 2,                                   *)
(*   <room><name>N</name><description>D</description><exits>X</exits>     *)
(*   </room>P\n                                                            *)
(* and a room block with a gratuitous element,                             *)
(*   <room><name>N</name><gratuitous>H</gratuitous>S</room>                *)
(* for texts N, D, X, P, H, S of ordinary text bytes.                      *)

Tag(name) == <<60>> \o name \o <<62>>

\* "", "Hi" and "a b"
RoomTexts == {<<>>, <<72, 105>>}
LineTexts == {<<72, 105>>, <<97, 32, 98>>}

RoomBlock(N, D, X, P) ==
    Tag(bRoom) \o Tag(bName) \o N \o Tag(Close(bName))
        \o Tag(bDescription) \o D \o Tag(Close(bDescription))
        \o Tag(bExits) \o X \o Tag(Close(bExits))
        \o Tag(Close(bRoom)) \o P \o <<ordLF>>

GratuitousBlock(N, H, S) ==
    Tag(bRoom) \o Tag(bName) \o N \o Tag(Close(bName))
        \o Tag(bGratuitous) \o H \o Tag(Close(bGratuitous)) \o S
        \o Tag(Close(bRoom))

InitRoom ==
    /\ InitDecoder
    /\ DecoderOnly
    /\ outputFormat \in OutputFormats
    /\ promptTerminator = defaultTerminator
    /\ \/ \E N \in RoomTexts, D \in RoomTexts, X \in RoomTexts, P \in LineTexts :
            /\ stream = RoomBlock(N, D, X, P)
            /\ params = <<"room", N, D, X, P>>
       \/ \E N \in RoomTexts, H \in LineTexts, S \in LineTexts :
            /\ stream = GratuitousBlock(N, H, S)
            /\ params = <<"gratuitous", N, H, S>>

SpecRoom == InitRoom /\ [][ServerNext]_vars

BeforeRoomEnd == SubSeq(GratuitousBlock(params[2], params[3], params[4]), 1,
                        Len(GratuitousBlock(params[2], params[3], params[4])) - 7)

----------------------------------------------------------------------------
(* Tags in every XML mode: a path of tags that leads to the mode, the text *)
(* "a", and one tag.                                                       *)

\* The tags that lead from the initial state to each mode, and to a room
\* element with the gratuitous flag set.
ModePaths ==
    {
    <<>>,
    Tag(bRoom),
    Tag(bRoom) \o Tag(bName),
    Tag(bRoom) \o Tag(bDescription),
    Tag(bRoom) \o Tag(bTerrain),
    Tag(bRoom) \o Tag(bGratuitous),
    Tag(bExits),
    Tag(bPrompt)
    }

bNorth == <<110, 111, 114, 116, 104>>
bEast == <<101, 97, 115, 116>>
bSouth == <<115, 111, 117, 116, 104>>
bWest == <<119, 101, 115, 116>>
bUp == <<117, 112>>
bDown == <<100, 111, 119, 110>>
Directions == {bNorth, bEast, bSouth, bWest, bUp, bDown}

\* <movement dir=D/>
MovementTag(D) == bMovement \o bDir \o D \o <<47>>

ElementNames ==
    {bExits, bPrompt, bRoom, bName, bDescription, bTerrain, bGratuitous}

\* The tags of the transition table, a tag whose name only begins with a
\* listed name ("names") and a tag the table does not list ("b").
TableTags ==
    ElementNames \cup {Close(n) : n \in ElementNames}
        \cup {MovementTag(bNorth), bName \o <<115>>, <<98>>}

\* The other tags the tintin format replaces, and the other movement tags.
OtherTags ==
    {bTell, bNarrate, bPray, bSay, bEmote}
        \cup {Close(n) : n \in {bTell, bNarrate, bPray, bSay, bEmote}}
        \cup {MovementTag(D) : D \in Directions}
        \cup {bMovement \o <<47>>, MovementTag(bNorth \o bDir \o bUp)}

InitTags ==
    /\ InitDecoder
    /\ DecoderOnly
    /\ outputFormat \in OutputFormats
    /\ promptTerminator = defaultTerminator
    /\ \/ \E path \in ModePaths, t \in TableTags :
            /\ stream = path \o <<97>> \o Tag(t)
            /\ params = <<path, t>>
       \/ \E t \in OtherTags :
            /\ stream = <<97>> \o Tag(t)
            /\ params = <<<<>>, t>>

SpecTags == InitTags /\ [][ServerNext]_vars

----------------------------------------------------------------------------
(* Claims about tags (SpecTags).                                           *)

\* The transition table of section 4.4 of the specification: the mode, the
\* name the tag begins with, the next mode and the event ("" for none).
TransitionTable ==
    {
    <<modeNone, bExits, modeExits, "">>,
    <<modeNone, bPrompt, modePrompt, "">>,
    <<modeNone, bRoom, modeRoom, "">>,
    <<modeNone, bMovement, modeNone, "movement">>,
    <<modeRoom, bName, modeName, "">>,
    <<modeRoom, bDescription, modeDescription, "">>,
    <<modeRoom, bTerrain, modeTerrain, "">>,
    <<modeRoom, bGratuitous, modeRoom, "">>,
    <<modeRoom, Close(bGratuitous), modeRoom, "">>,
    <<modeRoom, Close(bRoom), modeNone, "dynamic">>,
    <<modeName, Close(bName), modeRoom, "name">>,
    <<modeDescription, Close(bDescription), modeRoom, "description">>,
    <<modeTerrain, Close(bTerrain), modeRoom, "">>,
    <<modeExits, Close(bExits), modeNone, "exits">>,
    <<modePrompt, Close(bPrompt), modeNone, "prompt">>
    }

\* The rows of the table for a tag met in a mode.
TableRows(mode, tag) ==
    {r \in TransitionTable : r[1] = mode /\ StartsWith(tag, r[2])}

\* The next byte is handled as a byte of a tag (rules 6 and 7 of the byte
\* classifier).
TagByteNext ==
    /\ serverPc = "bytes"
    /\ data # <<>>
    /\ ~inIAC /\ Head(data) # ordIAC
    /\ ~inSubOption /\ Head(data) \notin ignoreBytes
    /\ ~inMPI
    /\ ~(Head(data) = 126 /\ mpiCounter = 0 /\ EndsWith(clientBuffer, <<ordLF>>))
    /\ ~(Head(data) = 36 /\ mpiCounter = 1)
    /\ ~(Head(data) = 35 /\ mpiCounter = 2)
    /\ ~(Head(data) = 69 /\ mpiCounter = 3)
    /\ (readingTag \/ Head(data) = 60)

\* The next byte is the '>' that ends a tag.
TagEndNext == TagByteNext /\ readingTag /\ Head(data) = 62

\* The queue gains exactly one event, of the given kind.
OneEventPut(kind) ==
    /\ Len(queue') = Len(queue) + 1
    /\ SubSeq(queue', 1, Len(queue)) = queue
    /\ queue'[Len(queue')].type = "MUD_DATA"
    /\ queue'[Len(queue')].event = kind

\* C3: at the end of every tag xmlMode follows the transition table: a
\* listed (mode, tag) pair moves to the listed mode and enqueues exactly the
\* listed event (with the text buffer as the payload of Name, Description,
\* Exits, Prompt and Dynamic), sets or clears the gratuitous flag as listed,
\* and a tag not listed for the mode changes neither xmlMode nor the queue;
\* no other byte changes xmlMode or the gratuitous flag.
C3_TransitionTable ==
    [][IF TagEndNext
       THEN LET rows == TableRows(xmlMode, tagBuffer) IN
            IF rows = {}
            THEN /\ xmlMode' = xmlMode
                 /\ queue' = queue
                 /\ inGratuitous' = inGratuitous
            ELSE \A r \in rows :
                /\ xmlMode' = r[3]
                /\ IF r[4] = "" THEN queue' = queue ELSE OneEventPut(r[4])
                /\ r[4] \notin {"", "movement"} =>
                        queue'[Len(queue')].data = textBuffer
                /\ inGratuitous' =
                        IF r[2] = bGratuitous THEN TRUE
                        ELSE IF r[2] = Close(bGratuitous) THEN FALSE
                        ELSE inGratuitous
       ELSE xmlMode' = xmlMode /\ inGratuitous' = inGratuitous
      ]_vars

\* C3's case: </name> has ended a name element inside a room element, and
\* its Name event is in the queue.
C3_Witness ==
    /\ xmlMode = modeRoom
    /\ ~readingTag
    /\ Events = <<<<"name", <<97>>>>>>

\* The names of the tags the tintin format replaces.
ReplacedNames == {bPrompt, bName, bTell, bNarrate, bPray, bSay, bEmote}

\* A lower-case name in upper case.
Upper(name) == [i \in 1..Len(name) |-> name[i] - 32]

\* The replacement of a tag in tintin format: "NAME:" for the open form,
\* ":NAME" for the close form, nothing for any other tag.
ReplacementOf(tag) ==
    IF tag \in ReplacedNames THEN Upper(tag) \o <<58>>
    ELSE IF tag # <<>> /\ tag[1] = 47 /\ Tail(tag) \in ReplacedNames
    THEN <<58>> \o Upper(Tail(tag))
    ELSE <<>>

\* C8: in normal and tintin formats no byte of a tag, from '<' to '>', is
\* appended to the client buffer; in tintin format the '>' of a tag of the
\* recognized set appends exactly its replacement, and the '>' of any other
\* tag appends nothing.
C8_TagsNotForwarded ==
    [][(TagByteNext /\ outputFormat # "raw") =>
        clientBuffer' = clientBuffer \o
            (IF outputFormat = "tintin" /\ readingTag /\ Head(data) = 62
             THEN ReplacementOf(tagBuffer)
             ELSE <<>>)
      ]_vars

\* C8's case: in tintin format the tag <narrate> has ended and the client
\* buffer holds the text before it and its replacement.
C8_Witness ==
    /\ outputFormat = "tintin"
    /\ ~readingTag
    /\ params[2] = bNarrate
    /\ clientBuffer = <<97, 78, 65, 82, 82, 65, 84, 69, 58>>

\* C10: a tag that begins with "movement", ended while xmlMode is None,
\* enqueues exactly one Movement event, leaves xmlMode None and appends
\* nothing to the client buffer in normal format; the payload of
\* <movement dir=D/> is D, that of <movement/> is empty, only the first
\* " dir=" is removed, and no payload holds a '/'.
C10_Movement ==
    [][(TagEndNext /\ xmlMode = modeNone /\ StartsWith(tagBuffer, bMovement)) =>
        /\ OneEventPut("movement")
        /\ xmlMode' = modeNone
        /\ outputFormat = "normal" => clientBuffer' = clientBuffer
        /\ \A D \in Directions :
                tagBuffer = MovementTag(D) => queue'[Len(queue')].data = D
        /\ tagBuffer = bMovement \o <<47>> => queue'[Len(queue')].data = <<>>
        /\ tagBuffer = MovementTag(bNorth \o bDir \o bUp) =>
                queue'[Len(queue')].data = bNorth \o bDir \o bUp
        /\ ~\E i \in 1..Len(queue'[Len(queue')].data) :
                queue'[Len(queue')].data[i] = 47
      ]_vars

\* C10's case: <movement dir=west/> has been decoded in normal format.
C10_Witness ==
    /\ outputFormat = "normal"
    /\ Decoded
    /\ params[2] = MovementTag(bWest)
    /\ Events = <<<<"movement", bWest>>>>
    /\ clientSent = <<97>>

----------------------------------------------------------------------------
(* MPI frames: newline, the escape ~$#E, a header (command and decimal     *)
(* length), a body of that length and the bytes that follow the frame.     *)

\* The decimal digits of n.
RECURSIVE Digits(_)
Digits(n) == IF n < 10 THEN <<48 + n>> ELSE Digits(n \div 10) \o <<48 + (n % 10)>>

\* The bytes a body may hold: 'a', NUL, 0x11 and 0xFF.
BodyBytes == {97, ordNUL, ordXON, ordIAC}

\* A body as the server sends it: 0xFF is escaped as IAC IAC.
RECURSIVE OnTheWire(_)
OnTheWire(body) ==
    IF body = <<>> THEN <<>>
    ELSE (IF Head(body) = ordIAC THEN <<ordIAC, ordIAC>> ELSE <<Head(body)>>)
            \o OnTheWire(Tail(body))

mpiEscape == <<126, 36, 35, 69>>

MpiFrame(command, body) ==
    <<ordLF>> \o mpiEscape \o <<command>> \o Digits(Len(body)) \o <<ordLF>>
        \o OnTheWire(body)

InitMpi ==
    /\ InitDecoder
    /\ DecoderOnly
    /\ outputFormat \in OutputFormats
    /\ promptTerminator = defaultTerminator
    /\ \E command \in {69, 86}, body \in SeqsUpTo(BodyBytes, MaxBody),
          tail \in {<<>>, <<98>>} :
        /\ stream = MpiFrame(command, body) \o tail
        /\ params = <<command, body, tail>>

SpecMpi == InitMpi /\ [][ServerNext]_vars

\* C5: an MPI frame with a valid header starts exactly one MPI worker, with
\* the command of the header and exactly the body bytes as data; no byte of
\* the frame after the newline reaches the client buffer, and the bytes
\* after the frame are handled as ordinary stream bytes.
C5_MpiFrame ==
    Decoded =>
        /\ mpiThreads = <<MpiThread(<<params[1]>>, params[2])>>
        /\ clientFlushed = <<ordLF>> \o params[3]

----------------------------------------------------------------------------
(* Prompts: IAC GA in plain text, inside a sub-option block and inside an  *)
(* MPI body.  params holds what the client is to receive before and after  *)
(* the prompt terminator.                                                  *)

PromptTerminators == {defaultTerminator, <<62>>}

InitPrompt ==
    /\ InitDecoder
    /\ DecoderOnly
    /\ outputFormat \in OutputFormats
    /\ promptTerminator \in PromptTerminators
    /\ \/ \E before \in {<<>>, <<97>>}, after \in {<<>>, <<98>>} :
            /\ stream = before \o <<ordIAC, ordGA>> \o after
            /\ params = <<"text", before, after>>
       \/ /\ stream = <<ordIAC, ordSB, ordTTYPE>> \o <<ordIAC, ordGA>>
                        \o <<ordIAC, ordSE>>
          /\ params = <<"suboption", <<ordIAC, ordSB, ordTTYPE>>, <<ordIAC, ordSE>>>>
       \/ /\ stream = <<ordLF>> \o mpiEscape \o <<69, 51, ordLF, 120>>
                        \o <<ordIAC, ordGA>> \o <<121, 122>>
          /\ params = <<"mpi", <<ordLF>>, <<>>>>

SpecPrompt == InitPrompt /\ [][ServerNext]_vars

\* C6: every IAC GA of the stream, in plain text, in a sub-option block or
\* in an MPI body, within one read or across two, enqueues exactly one
\* iac_ga event, and the client receives the prompt terminator in its place
\* and neither byte of the pair.
C6_PromptTerminator ==
    Decoded =>
        /\ Len(EventData("iac_ga")) = 1
        /\ clientSent = params[2] \o promptTerminator \o params[3]

----------------------------------------------------------------------------
(* MPI header lines: newline, the escape ~$#E, a header line and the bytes *)
(* that follow it.  All the headers but one are invalid.                   *)

\* Header lines: empty, a command without a length, an unknown command, a
\* length that is not a number, a length alone, a lower-case command, and
\* the valid E1.
HeaderLines ==
    {<<>>, <<69>>, <<86>>, <<88, 49>>, <<69, 49, 97>>, <<49>>, <<101, 49>>,
     <<69, 32, 49>>, <<69, 49>>}

\* What follows the header line: nothing, a line of text, a movement tag.
HeaderTails == {<<>>, <<97, ordLF>>, Tag(bMovement \o <<47>>)}

InitMpiHeader ==
    /\ InitDecoder
    /\ DecoderOnly
    /\ outputFormat \in OutputFormats
    /\ promptTerminator = defaultTerminator
    /\ \E header \in HeaderLines, tail \in HeaderTails :
        /\ stream = <<ordLF>> \o mpiEscape \o header \o <<ordLF>> \o tail
        /\ params = <<header, tail>>

SpecMpiHeader == InitMpiHeader /\ [][ServerNext]_vars

\* The for loop decodes one byte.
ByteNext ==
    /\ serverPc = "bytes"
    /\ data # <<>>
    /\ received' = Append(received, Head(data))

\* A header line is valid: a command E or V followed by decimal digits.
HeaderValid(h) ==
    /\ Len(h) >= 2
    /\ h[1] \in {69, 86}
    /\ \A i \in 2..Len(h) : h[i] \in 48..57

\* The next byte is an ordinary byte of an MPI header line.
HeaderByteNext ==
    /\ ByteNext
    /\ inMPI /\ mpiCommand = None /\ mpiLen = None
    /\ ~inIAC /\ Head(data) # ordIAC
    /\ ~inSubOption /\ Head(data) \notin ignoreBytes

\* The escape was recognized: the client has been sent no '~'.
EscapeTaken == \A i \in 1..Len(clientFlushed) : clientFlushed[i] # 126

\* The events the bytes after the header line give when decoded as
\* ordinary bytes.
TailEvents(tail) ==
    IF tail = <<97, ordLF>> THEN <<<<"line", <<97>>>>>>
    ELSE IF tail = Tag(bMovement \o <<47>>) THEN <<<<"movement", <<>>>>>>
    ELSE <<>>

\* The bytes of them the client is sent.
TailShown(tail) ==
    IF tail = Tag(bMovement \o <<47>>) /\ ~rawFormat THEN <<>> ELSE tail

\* C11: when the newline that ends an MPI header line arrives and the line
\* is not a command E or V followed by decimal digits, the decoder leaves
\* MPI mode with mpiBuffer empty and mpiCommand and mpiLen unset, starts no
\* worker, puts no event, leaves the client buffer and every other field of
\* the decoder as they were; no byte of the header line reaches the client
\* buffer; and the bytes after the line are decoded as ordinary bytes: the
\* events and the client output are those of the newline before the escape
\* and of the bytes after the header line.
C11_InvalidHeader ==
    /\ [][HeaderByteNext =>
            IF Head(data) # ordLF
            THEN /\ clientBuffer' = clientBuffer
                 /\ queue' = queue
                 /\ mpiThreads' = mpiThreads
                 /\ inMPI'
            ELSE ~HeaderValid(mpiBuffer) =>
                 /\ ~inMPI'
                 /\ mpiBuffer' = <<>>
                 /\ mpiCommand' = None /\ mpiLen' = None
                 /\ mpiCounter' = 0
                 /\ mpiThreads' = mpiThreads
                 /\ queue' = queue
                 /\ clientBuffer' = clientBuffer
                 /\ <<inIAC, inSubOption, inCharset, inCharsetResponse,
                      tagBuffer, textBuffer, lineBuffer, readingTag,
                      inGratuitous, xmlMode, serverSent>>' =
                    <<inIAC, inSubOption, inCharset, inCharsetResponse,
                      tagBuffer, textBuffer, lineBuffer, readingTag,
                      inGratuitous, xmlMode, serverSent>>
       ]_vars
    /\ [](Decoded /\ EscapeTaken /\ ~HeaderValid(params[1]) =>
            /\ mpiThreads = <<>>
            /\ ~inMPI /\ mpiBuffer = <<>>
            /\ mpiCommand = None /\ mpiLen = None
            /\ Events = TailEvents(params[2])
            /\ clientFlushed = <<ordLF>> \o TailShown(params[2])
            /\ clientSent = clientFlushed)

\* The header line "E1a" was refused and the line of text after it decoded.
C11_Witness ==
    /\ Decoded
    /\ EscapeTaken
    /\ params = <<<<69, 49, 97>>, <<97, ordLF>>>>
    /\ Events = <<<<"line", <<97>>>>>>
    /\ clientSent = <<ordLF, 97, ordLF>>
    /\ mpiThreads = <<>>

----------------------------------------------------------------------------
(* Text followed by markup: the text "Hi", ended by a newline or not, then *)
(* a movement tag, an IAC GA, a prompt element or a room block, then a     *)
(* newline.                                                                *)

\* What follows the text, by kind, and the events it gives.
Followers ==
    {<<"movement", Tag(MovementTag(bNorth)), <<<<"movement", bNorth>>>>>>,
     <<"iac_ga", <<ordIAC, ordGA>>, <<<<"iac_ga", <<>>>>>>>>,
     <<"prompt", Tag(bPrompt) \o <<112>> \o Tag(Close(bPrompt)),
        <<<<"prompt", <<112>>>>>>>>,
     <<"room", Tag(bRoom) \o Tag(bName) \o <<78>> \o Tag(Close(bName))
                \o Tag(Close(bRoom)),
        <<<<"name", <<78>>>>, <<"dynamic", <<>>>>>>>>}

InitOrder ==
    /\ InitDecoder
    /\ DecoderOnly
    /\ outputFormat \in OutputFormats
    /\ promptTerminator = defaultTerminator
    /\ \E terminated \in BOOLEAN, f \in Followers :
        /\ stream = <<72, 105>>
                \o (IF terminated THEN <<ordLF>> ELSE <<>>)
                \o f[2] \o <<ordLF>>
        /\ params = <<terminated, f[1], f[3]>>

SpecOrder == InitOrder /\ [][ServerNext]_vars

\* The queue only grows, and at its end.
QueueAppends ==
    /\ Len(queue') >= Len(queue)
    /\ SubSeq(queue', 1, Len(queue)) = queue

\* Every event of the markup on the queue has the line "Hi" before it.
LineBeforeMarkup ==
    \A i \in 1..Len(queue) :
        queue[i].event # "line" =>
            \E j \in 1..(i - 1) :
                queue[j].event = "line" /\ queue[j].data = <<72, 105>>

\* C12 as the specification states it: events are put at the end of the
\* queue, and the line of every text is on the queue before the events of
\* the tags or the IAC GA that follow the text in the stream.
C12_SourceOrderAsStated ==
    /\ [][QueueAppends]_vars
    /\ [](LineBeforeMarkup)

\* C12: events are put at the end of the queue in the order in which the
\* bytes that complete them arrive.  The line of a text that ends with a
\* newline is on the queue before the events of what follows the newline;
\* a text with no newline yet is put as a line only at the next newline
\* outside an element, after the events of the tags or the IAC GA between.
C12_SourceOrder ==
    /\ [][QueueAppends]_vars
    /\ [](params[1] => LineBeforeMarkup)
    /\ [](Decoded =>
            Events = IF params[1]
                     THEN <<<<"line", <<72, 105>>>>>> \o params[3]
                     ELSE params[3] \o <<<<"line", <<72, 105>>>>>>)

\* The text ended with a newline, a room block followed, and the line is
\* first on the queue.
C12_Witness ==
    /\ Decoded
    /\ params[1] /\ params[2] = "room"
    /\ Events = <<<<"line", <<72, 105>>>>, <<"name", <<78>>>>,
                  <<"dynamic", <<>>>>>>

----------------------------------------------------------------------------
(* The session: the Server, Proxy and Mapper threads, the driver (main)    *)
(* that joins them, and the two sockets.  The interface is "text" and the  *)
(* stream holds no MPI frame, so that the Server thread ends when it       *)
(* leaves its loop.  The sockets end when their peers choose.              *)

\* The most payloads the client sends in a session.
MaxClientPayloads == 2

\* What the Server thread owns.
serverThreadVars == <<outputFormat, promptTerminator, decoderVars, serverAlive,
    serverPc, data, stream, received, clientFlushed, params>>

\* Line 39: the names of the mapper's user_command_ methods; "run" stands
\* for them.
userCommands == {<<114, 117, 110>>}

\* data.strip()
RECURSIVE Strip(_)
Strip(s) ==
    IF s = <<>> THEN s
    ELSE IF Head(s) \in whitespace THEN Strip(Tail(s))
    ELSE IF s[Len(s)] \in whitespace THEN Strip(DelLast(s, 1))
    ELSE s

\* s.split()[0], for s with no leading whitespace
RECURSIVE FirstWord(_)
FirstWord(s) ==
    IF s = <<>> \/ Head(s) \in whitespace THEN <<>>
    ELSE <<Head(s)>> \o FirstWord(Tail(s))

\* IsUserCommand with a fault: the payload need only begin with a command.
IsUserCommandByPrefix(payload) ==
    \E c \in userCommands : StartsWith(Strip(payload), c)

\* Line 51: the payload is a user command.
IsUserCommand(payload) ==
    Strip(payload) # <<>> /\ FirstWord(Strip(payload)) \in userCommands

\* The items of the queue that do not come from the decoder.
UserData(payload) == [type |-> "USER_DATA", event |-> "", data |-> payload]
Shutdown == [type |-> "None", event |-> "", data |-> <<>>]

\* Lines 39-40: the Proxy thread starts and sets its flag.
ProxyStart ==
    /\ proxyPc = "start"
    /\ proxyAlive' = TRUE
    /\ proxyPc' = "loop"
    /\ UNCHANGED <<serverThreadVars, guiVars, workerVars, queue, serverSent, clientSent,
                   proxyLast, clientIn, clientSock, serverSock, mapperPc,
                   delivered, mainPc>>

\* Lines 43-45: recv times out after a second without data.
ProxyTimeout ==
    /\ proxyPc = "loop" /\ proxyAlive
    /\ clientSock = "open"
    /\ proxyLast' = "timeout"
    /\ UNCHANGED <<serverThreadVars, guiVars, workerVars, queue, serverSent, clientSent,
                   proxyAlive, proxyPc, clientIn, clientSock, serverSock,
                   mapperPc, delivered, mainPc>>

\* Lines 46-48: recv raises an EnvironmentError.
ProxyRecvError ==
    /\ proxyPc = "loop" /\ proxyAlive
    /\ clientSock = "error"
    /\ proxyAlive' = FALSE
    /\ proxyLast' = "error"
    /\ UNCHANGED <<serverThreadVars, guiVars, workerVars, queue, serverSent, clientSent,
                   proxyPc, clientIn, clientSock, serverSock, mapperPc,
                   delivered, mainPc>>

\* Lines 49-50: recv returns b"", the client's side is closed.
ProxyRecvEof ==
    /\ proxyPc = "loop" /\ proxyAlive
    /\ clientSock \in {"eof", "shut"}
    /\ clientIn = <<>>
    /\ proxyAlive' = FALSE
    /\ proxyLast' = "eof"
    /\ UNCHANGED <<serverThreadVars, guiVars, workerVars, queue, serverSent, clientSent,
                   proxyPc, clientIn, clientSock, serverSock, mapperPc,
                   delivered, mainPc>>

\* Lines 51-52: the payload read is a user command and goes to the mapper.
ProxyCommand ==
    /\ proxyPc = "loop" /\ proxyAlive
    /\ clientSock # "error"
    /\ clientIn # <<>>
    /\ IsUserCommand(Head(clientIn))
    /\ queue' = Append(queue, UserData(Head(clientIn)))
    /\ clientIn' = Tail(clientIn)
    /\ proxyLast' = "command"
    /\ UNCHANGED <<serverThreadVars, guiVars, workerVars, serverSent, clientSent,
                   proxyAlive, proxyPc, clientSock, serverSock, mapperPc,
                   delivered, mainPc>>

\* Lines 53-55: any other payload is written to the server.
ProxyForward ==
    /\ proxyPc = "loop" /\ proxyAlive
    /\ clientSock # "error"
    /\ clientIn # <<>>
    /\ ~IsUserCommand(Head(clientIn))
    /\ serverSock \in {"open", "eof"}
    /\ serverSent' = Append(serverSent, Head(clientIn))
    /\ clientIn' = Tail(clientIn)
    /\ proxyLast' = "forward"
    /\ UNCHANGED <<serverThreadVars, guiVars, workerVars, queue, clientSent, proxyAlive,
                   proxyPc, clientSock, serverSock, mapperPc, delivered,
                   mainPc>>

\* Lines 56-58: the write to the server raises an EnvironmentError.
ProxyForwardError ==
    /\ proxyPc = "loop" /\ proxyAlive
    /\ clientSock # "error"
    /\ clientIn # <<>>
    /\ ~IsUserCommand(Head(clientIn))
    /\ serverSock # "open"
    /\ proxyAlive' = FALSE
    /\ clientIn' = Tail(clientIn)
    /\ proxyLast' = "senderror"
    /\ UNCHANGED <<serverThreadVars, guiVars, workerVars, queue, serverSent, clientSent,
                   proxyPc, clientSock, serverSock, mapperPc, delivered,
                   mainPc>>

\* Line 41: the flag is clear and the loop ends.
ProxyExit ==
    /\ proxyPc = "loop" /\ ~proxyAlive
    /\ proxyPc' = "done"
    /\ UNCHANGED <<serverThreadVars, guiVars, workerVars, queue, serverSent, clientSent,
                   proxyAlive, proxyLast, clientIn, clientSock, serverSock,
                   mapperPc, delivered, mainPc>>

ProxyNext ==
    \/ ProxyStart \/ ProxyTimeout \/ ProxyRecvError \/ ProxyRecvEof
    \/ ProxyCommand \/ ProxyForward \/ ProxyForwardError \/ ProxyExit

\* The Mapper thread (mapper/mapper.py): it takes the next item off the
\* queue, and stops when the item is the sentinel (None, None).
MapperGet ==
    /\ mapperPc = "run"
    /\ queue # <<>>
    /\ queue' = Tail(queue)
    /\ IF Head(queue) = Shutdown
       THEN mapperPc' = "done" /\ delivered' = delivered
       ELSE mapperPc' = mapperPc /\ delivered' = Append(delivered, Head(queue))
    /\ UNCHANGED <<serverThreadVars, guiVars, workerVars, serverSent, clientSent,
                   proxyAlive, proxyPc, proxyLast, clientIn, clientSock,
                   serverSock, mainPc>>

\* Lines 143-145: the Server thread's recv raises an EnvironmentError.
ServerRecvError ==
    /\ serverPc = "recv"
    /\ serverAlive
    /\ serverSock = "error"
    /\ serverAlive' = FALSE
    /\ serverPc' = "closed"
    /\ UNCHANGED <<outputFormat, promptTerminator, decoderVars, data, stream,
                   queue, serverSent, clientSent, received, clientFlushed,
                   params, peerVars, guiVars>>

\* Lines 326-330: the write of the client buffer raises an
\* EnvironmentError; the buffer is not cleared.
ServerFlushError ==
    /\ serverPc = "bytes"
    /\ data = <<>>
    /\ clientSock # "open"
    /\ serverAlive' = FALSE
    /\ serverPc' = "closed"
    /\ UNCHANGED <<outputFormat, promptTerminator, decoderVars, data, stream,
                   queue, serverSent, clientSent, received, clientFlushed,
                   params, peerVars, guiVars>>

ServerThreadNext == ServerNext \/ ServerRecvError \/ ServerFlushError

\* Lines 337-338: run returns once the loop has ended and every MPI thread
\* has been joined; an exception that leaves run ends the thread at once.
ServerEnded ==
    \/ serverPc = "failed"
    \/ serverPc = "closed" /\ \A i \in 1..Len(mpiThreads) : i \in mpiDone

\* main, lines 400-404: the Server thread is joined and the server socket
\* shut down.
MainJoinServer ==
    /\ mainPc = "join_server"
    /\ ServerEnded
    /\ serverSock' = "shut"
    /\ mainPc' = "put_sentinel"
    /\ UNCHANGED <<serverThreadVars, guiVars, workerVars, queue, serverSent, clientSent,
                   proxyAlive, proxyPc, proxyLast, clientIn, clientSock,
                   mapperPc, delivered>>

\* main, line 405: the sentinel is put on the mapper's queue.
MainPutSentinel ==
    /\ mainPc = "put_sentinel"
    /\ queue' = Append(queue, Shutdown)
    /\ mainPc' = "join_mapper"
    /\ UNCHANGED <<serverThreadVars, guiVars, workerVars, serverSent, clientSent,
                   proxyAlive, proxyPc, proxyLast, clientIn, clientSock,
                   serverSock, mapperPc, delivered>>

\* main, line 406: the Mapper thread is joined.
MainJoinMapper ==
    /\ mainPc = "join_mapper"
    /\ mapperPc = "done"
    /\ mainPc' = "close_proxy"
    /\ UNCHANGED <<serverThreadVars, guiVars, workerVars, queue, serverSent, clientSent,
                   proxyAlive, proxyPc, proxyLast, clientIn, clientSock,
                   serverSock, mapperPc, delivered>>

\* main, lines 407-410: CR LF is written to the client, the Proxy's flag is
\* cleared and the client socket shut down.
MainCloseProxy ==
    /\ mainPc = "close_proxy"
    /\ clientSock \in {"open", "eof"}
    /\ clientSent' = clientSent \o <<ordCR, ordLF>>
    /\ proxyAlive' = FALSE
    /\ clientSock' = "shut"
    /\ mainPc' = "join_proxy"
    /\ UNCHANGED <<serverThreadVars, guiVars, workerVars, queue, serverSent, proxyPc,
                   proxyLast, clientIn, serverSock, mapperPc, delivered>>

\* main, lines 407-412: the write of CR LF raises an EnvironmentError, and
\* the rest of the try block is skipped.
MainCloseProxyError ==
    /\ mainPc = "close_proxy"
    /\ clientSock \in {"eof", "error"}
    /\ mainPc' = "join_proxy"
    /\ UNCHANGED <<serverThreadVars, guiVars, workerVars, queue, serverSent, clientSent,
                   proxyAlive, proxyPc, proxyLast, clientIn, clientSock,
                   serverSock, mapperPc, delivered>>

\* main, lines 413-419: the Proxy thread is joined and main returns.
MainJoinProxy ==
    /\ mainPc = "join_proxy"
    /\ proxyPc = "done"
    /\ mainPc' = "done"
    /\ UNCHANGED <<serverThreadVars, guiVars, workerVars, queue, serverSent, clientSent,
                   proxyAlive, proxyPc, proxyLast, clientIn, clientSock,
                   serverSock, mapperPc, delivered>>

MainNext ==
    \/ MainJoinServer \/ MainPutSentinel \/ MainJoinMapper
    \/ MainCloseProxy \/ MainCloseProxyError \/ MainJoinProxy

\* The client closes its connection, or the connection breaks.
ClientEnds ==
    /\ clientSock = "open"
    /\ clientSock' \in {"eof", "error"}
    /\ UNCHANGED <<serverThreadVars, guiVars, workerVars, queue, serverSent, clientSent,
                   proxyAlive, proxyPc, proxyLast, clientIn, serverSock,
                   mapperPc, delivered, mainPc>>

\* The MUME server closes its connection, or the connection breaks.
ServerEnds ==
    /\ serverSock = "open"
    /\ serverSock' \in {"eof", "error"}
    /\ UNCHANGED <<serverThreadVars, guiVars, workerVars, queue, serverSent, clientSent,
                   proxyAlive, proxyPc, proxyLast, clientIn, clientSock,
                   mapperPc, delivered, mainPc>>

SessionNext ==
    \/ ServerThreadNext \/ ProxyNext \/ MapperGet \/ MainNext
    \/ ClientEnds \/ ServerEnds

\* The payloads of the client: the command "run", the command with leading
\* blanks and an argument, a word that only begins with "run", a game
\* command, and an empty line.
ClientPayloads ==
    {<<114, 117, 110, ordLF>>, <<32, 114, 117, 110, 32, 120>>,
     <<114, 117, 110, 120, ordLF>>, <<108, ordLF>>, <<ordLF>>}

\* The streams of the server: nothing, or a line of text.
SessionStreams == {<<>>, <<97, ordLF>>}

InitSession ==
    /\ InitDecoder
    /\ InitThreads
    /\ NoGui
    /\ outputFormat = "normal"
    /\ promptTerminator = defaultTerminator
    /\ clientSock = "open"
    /\ serverSock = "open"
    /\ stream \in SessionStreams
    /\ clientIn \in SeqsUpTo(ClientPayloads, MaxClientPayloads)
    /\ params = <<>>

SpecSession == InitSession /\ [][SessionNext]_vars

\* The threads are scheduled fairly; the peers of the sockets are not bound
\* to do anything.
SpecSessionFair ==
    /\ SpecSession
    /\ WF_vars(ServerThreadNext)
    /\ WF_vars(ProxyNext)
    /\ WF_vars(MapperGet)
    /\ WF_vars(MainNext)

\* C13: no item follows the sentinel on the mapper's queue, and when the
\* mapper has stopped every item put on the queue has been delivered to it.
C13_NothingAfterShutdown ==
    /\ \A i \in 1..Len(queue) : queue[i] = Shutdown => i = Len(queue)
    /\ mapperPc = "done" => queue = <<>>

\* All three threads have ended and main has returned.
AllDone ==
    /\ serverPc = "closed"
    /\ proxyPc = "done"
    /\ mapperPc = "done"
    /\ mainPc = "done"

\* C14: once either socket has reached EOF or failed, the three threads
\* eventually end and main returns.
C14_Termination ==
    (clientSock \in {"eof", "error"} \/ serverSock \in {"eof", "error"})
        ~> AllDone

\* The payloads whose first word is the command "run".
CommandPayloads ==
    {<<114, 117, 110, ordLF>>, <<32, 114, 117, 110, 32, 120>>}

\* Everything but the record of the Proxy's last recv.
allButProxyLast == <<serverThreadVars, guiVars, workerVars, queue, serverSent, clientSent,
    proxyAlive, proxyPc, clientIn, clientSock, serverSock, mapperPc,
    delivered, mainPc>>

\* C15: a payload read from the client whose first word is a user command
\* is put whole on the mapper's queue as USER_DATA and nothing is written to
\* the server; any other payload is handed whole to the server socket and
\* nothing is put on the queue (the payload is written whenever the server's
\* connection is open; if the write raises an error the Proxy stops).  A
\* read that times out changes nothing and the Proxy goes on.
C15_Dispatch ==
    [][/\ clientIn' # clientIn =>
            LET payload == Head(clientIn) IN
            /\ clientIn' = Tail(clientIn)
            /\ clientSent' = clientSent
            /\ IF payload \in CommandPayloads
               THEN /\ queue' = Append(queue, UserData(payload))
                    /\ serverSent' = serverSent
                    /\ proxyAlive' = proxyAlive
               ELSE /\ queue' = queue
                    /\ \/ /\ serverSent' = Append(serverSent, payload)
                          /\ proxyAlive' = proxyAlive
                       \/ /\ serverSock # "open"
                          /\ serverSent' = serverSent
                          /\ ~proxyAlive'
       /\ (proxyLast # "timeout" /\ proxyLast' = "timeout") =>
            /\ allButProxyLast' = allButProxyLast
            /\ proxyAlive /\ proxyPc = "loop"
      ]_vars

\* The Proxy has put the command "run" on the queue and then written the
\* game command that followed it to the server, after a read that timed out.
C15_Witness ==
    /\ proxyLast = "forward"
    /\ serverSent = <<<<108, ordLF>>>>
    /\ delivered \o queue = <<UserData(<<114, 117, 110, ordLF>>)>>
    /\ proxyAlive

----------------------------------------------------------------------------
(* Telnet streams: every sequence of at most MaxTelnetTokens of the tokens *)
(* below, delivered in reads of every size: the login negotiation, the     *)
(* bytes IAC, WILL, DO, SB, SE, GA and CHARSET, and a letter.              *)

\* The most tokens of a Telnet stream.
MaxTelnetTokens == 3

TelnetTokens ==
    {initialOutput, <<ordIAC>>, <<ordWILL>>, <<ordDO>>, <<ordSB>>, <<ordSE>>,
     <<ordGA>>, <<ordCHARSET>>, <<97>>}

InitTelnet ==
    /\ InitDecoder
    /\ DecoderOnly
    /\ outputFormat \in OutputFormats
    /\ promptTerminator = defaultTerminator
    /\ \E toks \in SeqsUpTo(TelnetTokens, MaxTelnetTokens) :
        /\ stream = Concat(toks)
        /\ params = toks

SpecTelnet == InitTelnet /\ [][ServerNext]_vars

\* recv returns a payload.
RecvNext == serverPc = "recv" /\ serverPc' = "bytes"

\* The identification: "~$#EI\n", "~$#EX2\n3G\n", "~$#EP2\nG\n" and
\* IAC WILL CHARSET.
Handshake ==
    <<
    <<126, 36, 35, 69, 73, 10>>,
    <<126, 36, 35, 69, 88, 50, 10, 51, 71, 10>>,
    <<126, 36, 35, 69, 80, 50, 10, 71, 10>>,
    <<255, 251, 42>>
    >>

\* The messages of the identification among those written to the server.
HandshakeSent == SelectSeq(serverSent, LAMBDA m : \E i \in 1..4 : m = Handshake[i])

\* C16: the first payload read from the server that begins with
\* IAC DO TTYPE IAC DO NAWS makes the decoder write the identification line,
\* the XML-mode enable, the prompt-style enable and IAC WILL CHARSET to the
\* server, in that order, before any byte of the payload is decoded, and
\* mark the charset negotiation as offered; no other payload and no byte
\* makes it write any of them, so they are written at most once.
C16_Handshake ==
    /\ [][IF RecvNext
          THEN IF ~encounteredInitialOutput /\ StartsWith(data', initialOutput)
               THEN /\ serverSent' = serverSent \o Handshake
                    /\ encounteredInitialOutput'
                    /\ inCharset'
                    /\ received' = received
                    /\ clientBuffer' = clientBuffer /\ queue' = queue
               ELSE /\ serverSent' = serverSent
                    /\ encounteredInitialOutput' = encounteredInitialOutput
                    /\ inCharset' = inCharset
          ELSE encounteredInitialOutput' = encounteredInitialOutput
       ]_vars
    /\ [](HandshakeSent = IF encounteredInitialOutput THEN Handshake ELSE <<>>)

\* The login negotiation came at the head of two payloads, and the
\* identification was written once.
C16_Witness ==
    /\ Decoded
    /\ params = <<initialOutput, initialOutput>>
    /\ clientFlushed = initialOutput \o initialOutput
    /\ Len(clientSent) = 12
    /\ serverSent = Handshake
    /\ encounteredInitialOutput

\* C20 as the specification states it: after a byte has been decoded inIAC
\* is set only if that byte was IAC.
C20_InIacAsStated ==
    [][ByteNext => (inIAC' => Head(data) = ordIAC)]_vars

\* C20: after a byte has been decoded inIAC is set exactly when the byte was
\* an IAC that did not itself follow an IAC, or was one of the verbs WILL,
\* WONT, DO, DONT met while inIAC was set (the option byte of the three-byte
\* sequence is still awaited).
C20_InIac ==
    [][ByteNext =>
        (inIAC' <=> \/ ~inIAC /\ Head(data) = ordIAC
                    \/ inIAC /\ Head(data) \in {251, 252, 253, 254})
      ]_vars

\* IAC WILL has been decoded and the option byte is awaited.
C20_Witness ==
    /\ inIAC
    /\ received = <<ordIAC, ordWILL>>
    /\ clientBuffer = <<ordIAC, ordWILL>>

----------------------------------------------------------------------------
(* The window of the GUI (gui/hc.py, class Window): the room size, the gap *)
(* and the blink rate kept in its configuration, as the key handlers and   *)
(* the properties read and write them.  A key of the configuration that is *)
(* missing is None, and one that holds v is Some(v).                       *)

minRoomSize == 20
maxRoomSize == 300
defaultRoomSize == 100
minGap == 10
maxGap == 100
defaultGap == 100
minBlinkRate == 0
maxBlinkRate == 15
defaultBlinkRate == 2
\* The step of the LEFT, RIGHT, UP and DOWN keys.
keyStep == 10

\* Window.size, the getter: the value the configuration holds, and that is
\* returned, after a read.
GetSize(stored) ==
    IF stored = None THEN defaultRoomSize
    ELSE IF minRoomSize <= stored[1] /\ stored[1] <= maxRoomSize THEN stored[1]
    ELSE defaultRoomSize

\* SetSize with a fault: the value is stored as it is.
SetSizeAsIs(value) == value

\* Window.size, the setter: the value it stores.
SetSize(value) ==
    IF value < minRoomSize THEN minRoomSize
    ELSE IF value > maxRoomSize THEN maxRoomSize
    ELSE value

\* Window.gap, the getter.
GetGap(stored) ==
    IF stored = None THEN defaultGap
    ELSE IF minGap <= stored[1] /\ stored[1] <= maxGap THEN stored[1]
    ELSE defaultGap

\* Window.gap, the setter.
SetGap(value) ==
    IF value < minGap THEN minGap
    ELSE IF value > maxGap THEN maxGap
    ELSE value

\* Window.blink_rate, the getter.
GetBlinkRate(stored) ==
    IF stored = None THEN defaultBlinkRate
    ELSE IF minBlinkRate <= stored[1] /\ stored[1] <= maxBlinkRate THEN stored[1]
    ELSE defaultBlinkRate

\* Window.blink_rate, the setter.
SetBlinkRate(value) ==
    IF value < minBlinkRate THEN minBlinkRate
    ELSE IF value > maxBlinkRate THEN maxBlinkRate
    ELSE value

\* What the window never touches.
nonGuiVars == <<serverThreadVars, queue, serverSent, clientSent, peerVars>>

\* The record of an operation: its name, the value stored before a read or
\* requested by a write, and the value the configuration holds after it.
GuiOp(op, arg, result) == [op |-> op, arg |-> arg, result |-> result]

\* A read of Window.size.
ReadSize ==
    /\ cfgRoomSize' = Some(GetSize(cfgRoomSize))
    /\ guiOp' = GuiOp("read_size", cfgRoomSize, GetSize(cfgRoomSize))
    /\ UNCHANGED <<nonGuiVars, blinkVars, cfgGap, cfgBlinkRate, continuousView>>

\* Window.do_adjust_size: the LEFT and RIGHT keys.
DoAdjustSize ==
    \E sym \in {"LEFT", "RIGHT"} :
        LET value == IF sym = "LEFT" THEN GetSize(cfgRoomSize) - keyStep
                     ELSE GetSize(cfgRoomSize) + keyStep IN
        /\ cfgRoomSize' = Some(GetSize(Some(SetSize(value))))
        /\ guiOp' = GuiOp("set_size", Some(value),
                          GetSize(Some(SetSize(value))))
        /\ UNCHANGED <<nonGuiVars, blinkVars, cfgGap, cfgBlinkRate, continuousView>>

\* Window.do_reset_zoom: the ESCAPE key.
DoResetZoom ==
    /\ cfgRoomSize' = Some(SetSize(defaultRoomSize))
    /\ guiOp' = GuiOp("set_size", Some(defaultRoomSize),
                      SetSize(defaultRoomSize))
    /\ UNCHANGED <<nonGuiVars, blinkVars, cfgGap, cfgBlinkRate, continuousView>>

\* A read of Window.gap.
ReadGap ==
    /\ cfgGap' = Some(GetGap(cfgGap))
    /\ guiOp' = GuiOp("read_gap", cfgGap, GetGap(cfgGap))
    /\ UNCHANGED <<nonGuiVars, blinkVars, cfgRoomSize, cfgBlinkRate, continuousView>>

\* Window.do_adjust_gap: the UP and DOWN keys.
DoAdjustGap ==
    \E sym \in {"DOWN", "UP"} :
        LET value == IF sym = "DOWN" THEN GetGap(cfgGap) - keyStep
                     ELSE GetGap(cfgGap) + keyStep IN
        /\ continuousView' = FALSE
        /\ cfgGap' = Some(GetGap(Some(SetGap(value))))
        /\ guiOp' = GuiOp("set_gap", Some(value), GetGap(Some(SetGap(value))))
        /\ UNCHANGED <<nonGuiVars, blinkVars, cfgRoomSize, cfgBlinkRate>>

\* Window.do_toggle_continuous_view: the SPACE key.
DoToggleContinuousView ==
    /\ continuousView' = ~continuousView
    /\ guiOp' = GuiOp("toggle_continuous_view", None, 0)
    /\ UNCHANGED <<nonGuiVars, blinkVars, cfgRoomSize, cfgGap, cfgBlinkRate>>

\* A read of Window.blink_rate.
ReadBlinkRate ==
    /\ cfgBlinkRate' = Some(GetBlinkRate(cfgBlinkRate))
    /\ guiOp' = GuiOp("read_blink_rate", cfgBlinkRate,
                      GetBlinkRate(cfgBlinkRate))
    /\ UNCHANGED <<nonGuiVars, blinkVars, cfgRoomSize, cfgGap, continuousView>>

\* The blink rates a caller may ask for.
RequestedBlinkRates == {-1, 0, 7, 15, 16}

\* A write of Window.blink_rate.
WriteBlinkRate ==
    \E value \in RequestedBlinkRates :
        /\ cfgBlinkRate' = Some(SetBlinkRate(value))
        /\ guiOp' = GuiOp("set_blink_rate", Some(value), SetBlinkRate(value))
        /\ UNCHANGED <<nonGuiVars, blinkVars, cfgRoomSize, cfgGap, continuousView>>

GuiNext ==
    \/ ReadSize \/ DoAdjustSize \/ DoResetZoom
    \/ ReadGap \/ DoAdjustGap \/ DoToggleContinuousView
    \/ ReadBlinkRate \/ WriteBlinkRate

\* The values config.json may hold: none, in range, at the bounds, or out
\* of range.
StoredRoomSizes == {None} \cup {Some(v) : v \in {10, 20, 95, 300, 310}}
StoredGaps == {None} \cup {Some(v) : v \in {0, 10, 55, 100, 110}}
StoredBlinkRates == {None} \cup {Some(v) : v \in {-1, 0, 2, 15, 16}}

\* Window.__init__, lines 129-145, with the GUI interface.
InitGui ==
    /\ InitDecoder
    /\ InitThreads
    /\ outputFormat = "normal"
    /\ promptTerminator = defaultTerminator
    /\ stream = <<>>
    /\ params = <<>>
    /\ clientIn = <<>>
    /\ clientSock = "open"
    /\ serverSock = "open"
    /\ cfgRoomSize \in StoredRoomSizes
    /\ cfgGap \in StoredGaps
    /\ cfgBlinkRate \in StoredBlinkRates
    /\ continuousView = TRUE
    /\ guiOp = <<>>
    /\ NoBlink

SpecGui == InitGui /\ [][GuiNext]_vars

\* v brought to the nearest bound of lo..hi.
ClampTo(v, lo, hi) == IF v < lo THEN lo ELSE IF v > hi THEN hi ELSE v

\* The range and the default of the value an operation is about.
RangeOf(op) ==
    IF op \in {"read_size", "set_size"} THEN <<20, 300, 100>>
    ELSE IF op \in {"read_gap", "set_gap"} THEN <<10, 100, 100>>
    ELSE <<0, 15, 2>>

\* The value of the configuration an operation is about.
ValueOf(op) ==
    IF op \in {"read_size", "set_size"} THEN cfgRoomSize
    ELSE IF op \in {"read_gap", "set_gap"} THEN cfgGap
    ELSE cfgBlinkRate

GuiReads == {"read_size", "read_gap", "read_blink_rate"}
GuiWrites == {"set_size", "set_gap", "set_blink_rate"}

\* C17 as the specification states it: a value written is clamped to the
\* nearest bound of its range, and so is an out-of-range stored value when
\* it is read.
C17_ClampAsStated ==
    (guiOp # <<>> /\ guiOp.op \in GuiReads \cup GuiWrites /\ guiOp.arg # None) =>
        LET r == RangeOf(guiOp.op) IN
        /\ guiOp.result = ClampTo(guiOp.arg[1], r[1], r[2])
        /\ ValueOf(guiOp.op) = Some(guiOp.result)

\* C17: a room size, gap or blink rate that is written is clamped to the
\* nearest bound of its range (20..300, 10..100, 0..15); a stored value
\* that is read is returned as it is when it is in range, and is replaced
\* by the default (100, 100, 2), not by the nearest bound, when it is out of
\* range or missing; after either, the configuration holds the value
\* returned and it is in range.
C17_Clamp ==
    (guiOp # <<>> /\ guiOp.op \in GuiReads \cup GuiWrites) =>
        LET r == RangeOf(guiOp.op) IN
        /\ ValueOf(guiOp.op) = Some(guiOp.result)
        /\ guiOp.result \in r[1]..r[2]
        /\ guiOp.op \in GuiWrites =>
                guiOp.result = ClampTo(guiOp.arg[1], r[1], r[2])
        /\ guiOp.op \in GuiReads =>
                guiOp.result =
                    IF guiOp.arg # None /\ guiOp.arg[1] \in r[1]..r[2]
                    THEN guiOp.arg[1]
                    ELSE r[3]

\* The RIGHT key at the largest room size asked for 310 and left 300, and
\* the stored gap of 110 had been read as 100.
C17_Witness ==
    /\ guiOp = GuiOp("set_size", Some(310), 300)
    /\ cfgRoomSize = Some(300)
    /\ cfgGap = Some(100)

----------------------------------------------------------------------------
(* The bytes of an MPI frame and the client (the streams of SpecMpi).      *)

\* The client buffer is written to the client.
FlushNext == serverPc = "bytes" /\ data = <<>> /\ serverPc' = "recv"

\* C18: while inMPI is set mpiCounter is 0, and no byte received while
\* inMPI is set is in the client buffer when it is flushed: a byte decoded
\* while inMPI is set adds nothing to the client buffer (but for an IAC,
\* which may wait there for the byte that follows it), and no such IAC is
\* waiting when the buffer is flushed.
C18_MpiBytesHidden ==
    /\ [](inMPI => mpiCounter = 0)
    /\ [][(ByteNext /\ inMPI) =>
            \/ Len(clientBuffer') <= Len(clientBuffer)
            \/ ~inIAC /\ Head(data) = ordIAC
       ]_vars
    /\ [][(FlushNext /\ inMPI) => ~inIAC]_vars

----------------------------------------------------------------------------
(* The MPI escape: some bytes, then '~', '$', '#' and 'E', each pair of    *)
(* them with nothing or with other bytes in between.                       *)

\* What comes before the '~': nothing, a letter, a newline, a newline and
\* a tag.
EscapePrefixes == {<<>>, <<97>>, <<ordLF>>, <<ordLF>> \o Tag(<<98>>)}

\* What comes between two bytes of the escape: nothing, NUL, 0x11, IAC GA,
\* or a letter.
EscapeGaps == {<<>>, <<ordNUL>>, <<ordXON>>, <<ordIAC, ordGA>>, <<97>>}

InitEscape ==
    /\ InitDecoder
    /\ DecoderOnly
    /\ outputFormat \in OutputFormats
    /\ promptTerminator = defaultTerminator
    /\ \E prefix \in EscapePrefixes, g1 \in EscapeGaps, g2 \in EscapeGaps,
          g3 \in EscapeGaps :
        /\ stream = prefix \o <<126>> \o g1 \o <<36>> \o g2 \o <<35>> \o g3
                \o <<69>>
        /\ params = <<prefix, g1, g2, g3>>

SpecEscape == InitEscape /\ [][ServerNext]_vars

\* C19: MPI mode is entered exactly when '~', '$', '#' and 'E' arrive one
\* after the other and the byte before the '~' is a newline, in every
\* output format and however the bytes are split into reads.
C19_EscapeAnchored ==
    Decoded =>
        (inMPI <=> /\ params[1] # <<>>
                   /\ params[1][Len(params[1])] = ordLF
                   /\ params[2] = <<>> /\ params[3] = <<>> /\ params[4] = <<>>)

----------------------------------------------------------------------------
(* Option negotiations: some bytes, then IAC, a verb and an option byte,   *)
(* then nothing or a line of text.                                         *)

\* What comes before the negotiation: nothing, the login negotiation (the
\* charset is then offered), a letter, or the tag that opens a room.
NegotiationPrefixes == {<<>>, initialOutput, <<97>>, Tag(bRoom)}

\* The option bytes: ECHO, TTYPE, CHARSET, NUL, and the bytes that are also
\* Telnet commands: SE, GA, SB, WILL and IAC.
OptionBytes ==
    {1, ordTTYPE, ordCHARSET, ordNUL, ordSE, ordGA, ordSB, ordWILL, ordIAC}

\* What comes after the negotiation.
NegotiationTails == {<<>>, <<97, ordLF>>}

InitNegotiation ==
    /\ InitDecoder
    /\ DecoderOnly
    /\ outputFormat \in OutputFormats
    /\ promptTerminator = defaultTerminator
    /\ \E prefix \in NegotiationPrefixes, verb \in negotiationBytes,
          option \in OptionBytes, tail \in NegotiationTails :
        /\ stream = prefix \o <<ordIAC, verb, option>> \o tail
        /\ params = <<prefix, verb, option, tail>>

SpecNegotiation == InitNegotiation /\ [][ServerNext]_vars

\* The next byte is the option byte of IAC <verb> <option>.
OptionByteNext ==
    /\ ByteNext
    /\ inIAC
    /\ Len(received) >= 2
    /\ received[Len(received)] \in negotiationBytes
    /\ received[Len(received) - 1] = ordIAC

\* C21: for every verb WILL, WONT, DO, DONT and every option byte (but
\* CHARSET while the charset is offered), the option byte of IAC <verb>
\* <option>, received outside MPI and sub-option mode, is appended to the
\* client buffer after IAC and the verb, ends the IAC state, and changes no
\* other field of the decoder, puts no event and writes nothing to the
\* server.
C21_OptionsForwarded ==
    [][(/\ OptionByteNext
        /\ ~inMPI /\ ~inSubOption
        /\ ~(Head(data) = ordCHARSET /\ inCharset)) =>
            /\ clientBuffer' = Append(clientBuffer, Head(data))
            /\ LastN(clientFlushed \o clientBuffer', 3) =
                    <<ordIAC, received[Len(received)], Head(data)>>
            /\ ~inIAC'
            /\ queue' = queue
            /\ serverSent' = serverSent
            /\ <<inSubOption, inCharset, inCharsetResponse, inMPI, mpiThreads,
                 mpiCounter, mpiCommand, mpiLen, mpiBuffer, tagBuffer,
                 textBuffer, lineBuffer, charsetResponseBuffer,
                 charsetResponseCode, readingTag, inGratuitous, xmlMode>>' =
               <<inSubOption, inCharset, inCharsetResponse, inMPI, mpiThreads,
                 mpiCounter, mpiCommand, mpiLen, mpiBuffer, tagBuffer,
                 textBuffer, lineBuffer, charsetResponseBuffer,
                 charsetResponseCode, readingTag, inGratuitous, xmlMode>>
      ]_vars

\* The charset requests among the messages written to the server.
CharsetRequests == SelectSeq(serverSent, LAMBDA m : m = charsetRequest)

\* C22: once the charset has been offered, an IAC DO CHARSET from the
\* server makes the decoder write IAC SB CHARSET REQUEST ';' "US-ASCII"
\* IAC SE to the server exactly once, and none of the three bytes reaches
\* the client, however the three bytes are split into reads.
C22_CharsetRequested ==
    (/\ Decoded
     /\ encounteredInitialOutput
     /\ params[1] = initialOutput
     /\ params[2] = ordDO /\ params[3] = ordCHARSET) =>
        /\ CharsetRequests = <<charsetRequest>>
        /\ clientFlushed = initialOutput \o params[4]
        /\ clientSent = clientFlushed

----------------------------------------------------------------------------
(* Charset responses: the login negotiation, then IAC SB CHARSET, a        *)
(* response code, the bytes of the response, IAC SE, and nothing or a      *)
(* letter.                                                                 *)

\* The most tokens of a charset response after its code.
MaxResponse == 2

\* ACCEPTED, the response code of RFC 2066 (SB_ACCEPTED, line 23).
responseAccepted == <<2>>

\* What a response holds after its code: a letter, NUL, 0x11, an escaped
\* 0xFF, and IAC GA.
ResponseTokens ==
    {<<85>>, <<ordNUL>>, <<ordXON>>, <<ordIAC, ordIAC>>, <<ordIAC, ordGA>>}

InitCharset ==
    /\ InitDecoder
    /\ DecoderOnly
    /\ outputFormat \in OutputFormats
    /\ promptTerminator = defaultTerminator
    /\ \E toks \in SeqsUpTo(ResponseTokens, MaxResponse), tail \in {<<>>, <<122>>} :
        /\ stream = initialOutput \o <<ordIAC, ordSB, ordCHARSET>>
                \o responseAccepted \o Concat(toks) \o <<ordIAC, ordSE>> \o tail
        /\ params = <<toks, tail>>

SpecCharset == InitCharset /\ [][ServerNext]_vars

\* C23: once the charset has been offered, no byte of a response
\* IAC SB CHARSET <code> <bytes> IAC SE reaches the client, whatever bytes
\* it holds and however it is split into reads, and after its IAC SE the
\* decoder is out of charset-response mode and of sub-option mode, with the
\* response code unset and the response buffer empty.
C23_ResponseHidden ==
    (Decoded /\ encounteredInitialOutput) =>
        /\ clientFlushed = initialOutput \o params[2]
        /\ clientSent = clientFlushed
        /\ ~inCharsetResponse /\ ~inSubOption
        /\ charsetResponseCode = None
        /\ charsetResponseBuffer = <<>>

----------------------------------------------------------------------------
(* Room blocks with a gratuitous element that is closed or not:            *)
(*   <room>[<gratuitous>] h or <name>h</name> [</gratuitous>]s</room>T     *)
(* for the texts T "", "t\n" and "\n".                                     *)

GratuitousTails == {<<>>, <<116, ordLF>>, <<ordLF>>}

InitGratuitous ==
    /\ InitDecoder
    /\ DecoderOnly
    /\ outputFormat \in OutputFormats
    /\ promptTerminator = defaultTerminator
    /\ \E opened \in BOOLEAN, closed \in BOOLEAN, named \in BOOLEAN,
          tail \in GratuitousTails :
        /\ stream = Tag(bRoom)
                \o (IF opened THEN Tag(bGratuitous) ELSE <<>>)
                \o (IF named THEN Tag(bName) \o <<104>> \o Tag(Close(bName))
                    ELSE <<104>>)
                \o (IF closed THEN Tag(Close(bGratuitous)) ELSE <<>>)
                \o <<115>> \o Tag(Close(bRoom)) \o tail
        /\ params = <<opened, closed, named, tail>>

SpecGratuitous == InitGratuitous /\ [][ServerNext]_vars

\* The next byte is handled as a text byte (rule 8 of the byte classifier).
TextByteNext ==
    /\ ByteNext
    /\ ~inIAC /\ Head(data) # ordIAC
    /\ ~inSubOption /\ Head(data) \notin ignoreBytes
    /\ ~inMPI
    /\ ~(Head(data) = 126 /\ mpiCounter = 0 /\ EndsWith(clientBuffer, <<ordLF>>))
    /\ ~(Head(data) = 36 /\ mpiCounter = 1)
    /\ ~(Head(data) = 35 /\ mpiCounter = 2)
    /\ ~(Head(data) = 69 /\ mpiCounter = 3)
    /\ ~readingTag /\ Head(data) # 60

C25_RoomEndClean ==
    /\ [][(TagEndNext /\ xmlMode = modeRoom
              /\ StartsWith(tagBuffer, Close(bRoom))) =>
            /\ tagBuffer' = <<>>
            /\ textBuffer' = <<>>
            /\ ~readingTag'
            /\ xmlMode' = modeNone
       ]_vars
    /\ [](~readingTag => tagBuffer = <<>>)

\* A </room> has ended a room element whose last text was "s".
C25_Witness ==
    /\ EventData("dynamic") = <<<<115>>>>
    /\ received[Len(received)] = 62
    /\ xmlMode = modeNone
    /\ ~readingTag
    /\ tagBuffer = <<>> /\ textBuffer = <<>>

\* C30: in every state the gratuitous flag is set only inside an element
\* (xmlMode is not None), so a text byte received outside any element is
\* appended to the client buffer in every format.
C30_GratuitousEnds ==
    /\ [](inGratuitous => xmlMode # modeNone)
    /\ [][(TextByteNext /\ xmlMode = modeNone) =>
            clientBuffer' = Append(clientBuffer, Head(data))
       ]_vars

----------------------------------------------------------------------------
(* The decoding of a whole stream that arrives in one read, for comparison *)
(* with its decoding in several reads (the streams of SpecMpi).            *)

\* Lines 96-139: the locals of Server.run as it enters its loop, as a
\* record.
InitialDecoder ==
    [inIAC |-> FALSE, inSubOption |-> FALSE, inCharset |-> FALSE,
     inCharsetResponse |-> FALSE, inMPI |-> FALSE,
     mpiThreads |-> <<>>, mpiCounter |-> 0,
     mpiCommand |-> None, mpiLen |-> None, mpiBuffer |-> <<>>,
     clientBuffer |-> <<>>, tagBuffer |-> <<>>,
     textBuffer |-> <<>>, lineBuffer |-> <<>>,
     charsetResponseBuffer |-> <<>>,
     charsetResponseCode |-> None,
     readingTag |-> FALSE, inGratuitous |-> FALSE,
     xmlMode |-> modeNone, queue |-> <<>>, serverSent |-> <<>>]

\* Lines 149-160, for the first payload: the identification.
Identify(d, payload) ==
    IF StartsWith(payload, initialOutput)
    THEN [d EXCEPT !.serverSent = @ \o identifyMessages, !.inCharset = TRUE]
    ELSE d

\* Lines 161-324: the for loop over the bytes of a payload.
RECURSIVE DecodeBytes(_, _)
DecodeBytes(d, payload) ==
    IF payload = <<>> THEN d
    ELSE DecodeBytes(DecodeByte(d, Head(payload)), Tail(payload))

\* The decoder after a first read that returns the payload.
FirstRead(payload) == DecodeBytes(Identify(InitialDecoder, payload), payload)

\* C28: however a stream is split into reads, the events put on the queue,
\* the MPI threads started, the messages written to the server and, in raw
\* format, the bytes written to the client are those of the same stream
\* read in one piece.
C28_ReadBoundaries ==
    Decoded =>
        LET whole == FirstRead(received) IN
        /\ queue = whole.queue
        /\ mpiThreads = whole.mpiThreads
        /\ serverSent = whole.serverSent
        /\ outputFormat = "raw" => clientSent = whole.clientBuffer


\* ---------------------------------------------------------------------
\* The output format and the MPI anchor (lines 246-252, 295-309, 323-324).
\* A frame that follows a newline and an optional tag: the tag is echoed to
\* the client in raw format, replaced in tintin format, dropped in normal
\* format, and the anchor test of line 246 reads the client buffer.
\* ---------------------------------------------------------------------
FormatMids == {<<>>, Tag(<<98>>), Tag(bSay)}

FormatTails == {<<>>, <<97, ordLF>>}

InitFormat ==
    /\ InitDecoder
    /\ DecoderOnly
    /\ outputFormat \in OutputFormats
    /\ promptTerminator = defaultTerminator
    /\ \E mid \in FormatMids, tail \in FormatTails :
        /\ stream = <<ordLF>> \o mid \o mpiEscape \o <<69>> \o Digits(1)
                \o <<ordLF, 120>> \o tail
        /\ params = <<mid, tail>>

SpecFormat == InitFormat /\ [][ServerNext]_vars

\* The stream came in one read, which has been decoded and not yet flushed.
WholeRead == EndOfRead /\ stream = <<>> /\ clientFlushed = <<>>

\* C29: the events and the MPI threads do not depend on the output format.
\* For a stream read in one piece they are, in every format, those of the
\* normal format: the thread of the frame, and the line that follows it.
C29_FormatIndependent ==
    WholeRead =>
        /\ mpiThreads = <<MpiThread(<<69>>, <<120>>)>>
        /\ Events = IF params[2] = <<>> THEN <<>> ELSE <<<<"line", <<97>>>>>>


\* ---------------------------------------------------------------------
\* The MPI threads and the end of the session (lines 149-160, 196-198,
\* 240-241, 332-338; main, lines 400-406).  mapper/mpi.py: a thread is
\* given the two sockets; a viewing thread shows its text and ends, an
\* editing thread writes the edited text to the server and ends.
\* ---------------------------------------------------------------------

\* The answer of an editing thread: its text, framed for the server.
MpiResponse(t) ==
    mpiEscape \o <<69>> \o Digits(Len(t.data)) \o <<ordLF>> \o t.data

\* The threads started and not yet ended.
MpiRunning == {i \in 1..Len(mpiThreads) : i \notin mpiDone}

\* What no MPI thread touches.
nonWorkerVars == <<serverThreadVars, guiVars, queue, clientSent, proxyAlive,
    proxyPc, proxyLast, clientIn, clientSock, serverSock, mapperPc, delivered,
    mainPc>>

\* An editing thread calls sendall on the server socket.
MpiSendBegin ==
    \E i \in MpiRunning \ mpiSending :
        /\ mpiThreads[i].command = <<69>>
        /\ serverSock \in {"open", "eof"}
        /\ mpiSending' = mpiSending \cup {i}
        /\ UNCHANGED <<nonWorkerVars, serverSent, mpiDone>>

\* The sendall returns: the answer is on the wire, and the thread ends.
MpiSendEnd ==
    \E i \in mpiSending :
        /\ serverSent' = Append(serverSent, MpiResponse(mpiThreads[i]))
        /\ mpiSending' = mpiSending \ {i}
        /\ mpiDone' = mpiDone \cup {i}
        /\ UNCHANGED nonWorkerVars

\* A viewing thread ends; an editing thread whose write fails ends.
MpiFinish ==
    \E i \in MpiRunning \ mpiSending :
        /\ mpiThreads[i].command = <<86>> \/ serverSock # "open"
        /\ mpiDone' = mpiDone \cup {i}
        /\ UNCHANGED <<nonWorkerVars, serverSent, mpiSending>>

MpiNext == MpiSendBegin \/ MpiSendEnd \/ MpiFinish

\* Lines 149-152: the first sendall of the identification raises an
\* EnvironmentError.  The call is in no try block: the exception leaves run
\* before lines 337-338, and the flag of the thread stays set.
ServerIdentifyError ==
    /\ serverPc = "recv"
    /\ serverAlive
    /\ ~encounteredInitialOutput
    /\ serverSock # "open"
    /\ \E n \in ReadSizes :
        /\ StartsWith(SubSeq(stream, 1, n), initialOutput)
        /\ stream' = From(stream, n)
    /\ serverPc' = "failed"
    /\ UNCHANGED <<outputFormat, promptTerminator, decoderVars, serverAlive,
                   data, queue, serverSent, clientSent, received,
                   clientFlushed, params, peerVars, guiVars>>

\* Lines 196-198: the sendall of the charset request raises an
\* EnvironmentError, in no try block either.
ServerRequestError ==
    /\ serverPc = "bytes"
    /\ data # <<>>
    /\ DecodeByte(DecoderState, Head(data)).serverSent # serverSent
    /\ serverSock # "open"
    /\ serverPc' = "failed"
    /\ UNCHANGED <<outputFormat, promptTerminator, decoderVars, serverAlive,
                   data, stream, queue, serverSent, clientSent, received,
                   clientFlushed, params, peerVars, guiVars>>

WorkersNext ==
    \/ SessionNext \/ ServerIdentifyError \/ ServerRequestError \/ MpiNext

\* The streams of the server: the login negotiation, a text to edit and the
\* charset offer; a text to view.
WorkerStreams ==
    {initialOutput \o MpiFrame(69, <<120>>) \o <<ordIAC, ordDO, ordCHARSET>>,
     MpiFrame(86, <<120>>)}

\* The payloads of the client: a game command, the command "run".
WorkerPayloads == {<<108, ordLF>>, <<114, 117, 110, ordLF>>}

InitWorkers ==
    /\ InitDecoder
    /\ InitThreads
    /\ NoGui
    /\ outputFormat = "normal"
    /\ promptTerminator = defaultTerminator
    /\ clientSock = "open"
    /\ serverSock = "open"
    /\ stream \in WorkerStreams
    /\ clientIn \in SeqsUpTo(WorkerPayloads, 1)
    /\ params = <<>>

SpecWorkers == InitWorkers /\ [][WorkersNext]_vars

\* The sentinel has been put on the mapper's queue.
SentinelPut == mainPc \notin {"join_server", "put_sentinel"}

\* C26: when main puts the sentinel on the mapper's queue the Server thread
\* has ended and every MPI thread it started has run to completion.
C26_WorkersBeforeShutdown ==
    SentinelPut =>
        /\ serverPc \in {"closed", "failed"}
        /\ MpiRunning = {}


\* A message of one of the set S has been written to the server socket.
Wrote(S) == \E i \in 1..Len(serverSent) : serverSent[i] \in S

\* The tasks whose messages are on the server socket: the Server thread
\* (lines 152-158, 198), the Proxy thread (line 55), the MPI threads.
ServerWriters ==
    {w \in {"decoder", "forwarder", "worker"} :
        \/ w = "decoder" /\ Wrote({identifyMessages[k] :
                                    k \in 1..Len(identifyMessages)}
                                  \cup {charsetRequest})
        \/ w = "forwarder" /\ Wrote(WorkerPayloads)
        \/ w = "worker" /\ Wrote({MpiResponse(mpiThreads[i]) :
                                    i \in 1..Len(mpiThreads)})}

\* A step that starts a write to the server socket: a thread of the session
\* puts a message on the wire, or an MPI thread calls sendall.
WriteBegins ==
    \/ Len(serverSent') > Len(serverSent) /\ mpiSending' = mpiSending
    \/ \E i \in 1..Len(mpiThreads) : i \notin mpiSending /\ i \in mpiSending'

\* C27: the server socket is written by at most two tasks, and no write to
\* it begins while another task's write to it is in progress.
C27_WritesExclusive ==
    /\ [][WriteBegins => mpiSending = {}]_vars
    /\ [](Cardinality(ServerWriters) <= 2)


\* ---------------------------------------------------------------------
\* The end of main when the client has stopped reading (Proxy.run, lines
\* 41-45; main, lines 362, 407-413).  The client socket has a timeout of one
\* second (line 362): a recv with nothing to read and a sendall that cannot
\* be completed both raise socket.timeout, which is an EnvironmentError.
\* clientSock = "stalled" is the connected client that reads nothing more.
\* ---------------------------------------------------------------------

\* The client stops reading; its connection stays open.
ClientStalls ==
    /\ clientSock = "open"
    /\ clientSock' = "stalled"
    /\ UNCHANGED <<serverThreadVars, guiVars, workerVars, queue, serverSent,
                   clientSent, proxyAlive, proxyPc, proxyLast, clientIn,
                   serverSock, mapperPc, delivered, mainPc>>

\* Lines 43-45: recv on the stalled client times out, and the loop goes on.
ProxyStalledTimeout ==
    /\ proxyPc = "loop" /\ proxyAlive
    /\ clientSock = "stalled"
    /\ proxyLast' = "timeout"
    /\ UNCHANGED <<serverThreadVars, guiVars, workerVars, queue, serverSent,
                   clientSent, proxyAlive, proxyPc, clientIn, clientSock,
                   serverSock, mapperPc, delivered, mainPc>>

\* main, lines 407-412: the write of CR LF to the stalled client times out;
\* proxyThread.close() and the shutdown are skipped.
MainCloseProxyTimeout ==
    /\ mainPc = "close_proxy"
    /\ clientSock = "stalled"
    /\ mainPc' = "join_proxy"
    /\ UNCHANGED <<serverThreadVars, guiVars, workerVars, queue, serverSent,
                   clientSent, proxyAlive, proxyPc, proxyLast, clientIn,
                   clientSock, serverSock, mapperPc, delivered>>

StallNext ==
    \/ SessionNext \/ ClientStalls \/ ProxyStalledTimeout
    \/ MainCloseProxyTimeout

SpecStall == InitSession /\ [][StallNext]_vars

\* The threads are scheduled fairly; the peers of the sockets are not bound
\* to do anything.
SpecStallFair ==
    /\ SpecStall
    /\ WF_vars(ServerThreadNext)
    /\ WF_vars(ProxyNext \/ ProxyStalledTimeout)
    /\ WF_vars(MapperGet)
    /\ WF_vars(MainNext \/ MainCloseProxyTimeout)

\* C31: once the Server thread has ended and the Mapper thread has been
\* joined, the Proxy thread is made to end and main returns, even if main's
\* write of CR LF to the client fails and the Proxy's reads only time out.
C31_ProxyReleased ==
    (mainPc = "close_proxy") ~> (proxyPc = "done" /\ mainPc = "done")


\* ---------------------------------------------------------------------
\* The blinking markers of the current room (gui/hc.py: class Blinker,
\* lines 85-113; Window.blink, lines 213-228; Window.blinker, lines
\* 310-316; Window.enable_current_room_markers, lines 759-767).  Times are
\* counted in periods of the clock that calls Window.blinker.
\* ---------------------------------------------------------------------

\* Line 222: Window.blinker is scheduled twenty times a second.
blinkerFrequency == 20

\* The time since the last call of Window.blinker: one period, or more when
\* the soft schedule is late.
TickTimes == {1, 3}

\* Blinker.__init__, lines 86-92; vl is set when the marker is drawn.
Blinker(blink_rate) == [blink_rate |-> blink_rate, since |-> 0, vl |-> FALSE]

\* Blinker.blink, lines 94-105, for a blink rate other than 0:
\* since >= 1.0 / blink_rate, with since in twentieths of a second.
BlinkerBlink(b, dt) ==
    IF (b.since + dt) * b.blink_rate >= blinkerFrequency
    THEN [b EXCEPT !.vl = ~@, !.since = 0]
    ELSE [b EXCEPT !.since = @ + dt]

\* Lines 759-767: the four markers, made with the blink rate read then.
CurrentRoomMarkers(stored) == [i \in 1..4 |-> Blinker(GetBlinkRate(stored))]

\* Window.blinker, lines 310-316: the clock calls blink on every marker.
\* With a blink rate of 0 the first marker adds dt to since and raises a
\* ZeroDivisionError at 1.0 / self.blink_rate (lines 95-96).
WindowBlinker ==
    /\ cfgBlink
    /\ guiError = ""
    /\ blinkers # None
    /\ \E dt \in TickTimes :
        /\ IF blinkers[1].blink_rate = 0
           THEN /\ blinkers' = [blinkers EXCEPT ![1].since = @ + dt]
                /\ guiError' = "ZeroDivisionError"
           ELSE /\ blinkers' = [i \in 1..Len(blinkers) |->
                                    BlinkerBlink(blinkers[i], dt)]
                /\ guiError' = guiError
        /\ guiOp' = GuiOp("blinker", Some(dt), 0)
    /\ UNCHANGED <<nonGuiVars, cfgRoomSize, cfgGap, cfgBlinkRate,
                   continuousView, cfgBlink>>

\* Window.do_toggle_blink, lines 434-436, and the setter of Window.blink,
\* lines 217-228: enabling makes the markers unless they exist, disabling
\* deletes them and removes them from the table.
DoToggleBlink ==
    /\ guiError = ""
    /\ cfgBlink' = ~cfgBlink
    /\ IF ~cfgBlink
       THEN /\ blinkers' = IF blinkers # None THEN blinkers
                           ELSE CurrentRoomMarkers(cfgBlinkRate)
            /\ cfgBlinkRate' = IF blinkers # None THEN cfgBlinkRate
                               ELSE Some(GetBlinkRate(cfgBlinkRate))
            /\ guiError' = guiError
       ELSE /\ blinkers' = None
            /\ cfgBlinkRate' = cfgBlinkRate
            /\ guiError' = IF blinkers = None THEN "KeyError" ELSE guiError
    /\ guiOp' = GuiOp("toggle_blink", None, 0)
    /\ UNCHANGED <<nonGuiVars, cfgRoomSize, cfgGap, continuousView>>

BlinkNext == ReadBlinkRate \/ WriteBlinkRate \/ DoToggleBlink \/ WindowBlinker

\* Window.__init__, lines 129-159: blinking is enabled unless the
\* configuration says otherwise, and enabling it makes the markers.
InitBlink ==
    /\ InitDecoder
    /\ InitThreads
    /\ outputFormat = "normal"
    /\ promptTerminator = defaultTerminator
    /\ stream = <<>>
    /\ clientIn = <<>>
    /\ clientSock = "open"
    /\ serverSock = "open"
    /\ cfgRoomSize = None
    /\ cfgGap = None
    /\ continuousView = TRUE
    /\ guiOp = <<>>
    /\ guiError = ""
    /\ \E blink \in {None, Some(TRUE), Some(FALSE)},
          rate \in StoredBlinkRates :
        /\ params = <<blink, rate>>
        /\ IF blink = None \/ blink = Some(TRUE)
           THEN /\ cfgBlink = TRUE
                /\ cfgBlinkRate = Some(GetBlinkRate(rate))
                /\ blinkers = CurrentRoomMarkers(rate)
           ELSE /\ cfgBlink = FALSE
                /\ cfgBlinkRate = rate
                /\ blinkers = None

SpecBlink == InitBlink /\ [][BlinkNext]_vars

\* What Blinker.blink is to do to marker b after dt more periods.
Ticked(b, after, dt) ==
    IF (b.since + dt) * b.blink_rate >= blinkerFrequency
    THEN after.vl = ~b.vl /\ after.since = 0
    ELSE after.vl = b.vl

\* C32: with every blink rate of 0..15 no call of Window.blinker raises an
\* error; a marker whose time since its last change reaches 1/blink_rate
\* changes between drawn and not drawn and starts counting from 0 again,
\* any other marker stays as it is; and the markers of the current room
\* are in the table of the window exactly when blinking is enabled.
C32_BlinkerTicks ==
    /\ [](guiError = "")
    /\ [](blinkers # None <=> cfgBlink)
    /\ [][WindowBlinker =>
            \A i \in 1..Len(blinkers) :
                Ticked(blinkers[i], blinkers'[i], guiOp'.arg[1])]_vars

====
